---- MODULE Spec2Model ----
(***************************************************************************)
(* Model of covera-gg/upload-coverage-action.                              *)
(*                                                                         *)
(* Strings are sequences of one-character strings, so that the string      *)
(* operations of the code (split, trim, startsWith, endsWith, includes,    *)
(* the path functions) are computed character by character.                *)
(***************************************************************************)
EXTENDS Integers, Sequences, FiniteSets, TLC

VARIABLES
    pc,             \* position of the running function
    \* ---- findCoverageFiles (files.ts)
    patternBlock,   \* the `pattern` argument
    patterns,       \* const patterns
    globCalls,      \* log of glob.create(pat, options) calls
    globResults,    \* log of what each globber.glob() returned
    allFiles,       \* const allFiles
    filesResult,    \* the returned uniqueFiles
    filesError,     \* TRUE when the returned promise rejected
    \* ---- detectPathContext (context.ts)
    envWorkspace,   \* process.env.GITHUB_WORKSPACE ('' when unset)
    cwd,            \* process.cwd()
    fsFiles,        \* the paths for which fs.existsSync answers true
    coverageFiles,  \* the coverageFiles argument
    workingDirectoryInput,  \* the workingDirectoryInput argument ('' when not given)
    repoRoot,       \* const repoRoot
    pathSummary,    \* const summary of logCoveragePathSummary
    coreLog,        \* the lines logCoveragePathSummary emitted through core
    fsLog,          \* the calls made on fs, in order
    walks,          \* the auto-detection walks started, in order
    goLocals,       \* const workingDir, goModulePath of the Go branch
    ctxResult,      \* the returned context
    ctxError,       \* TRUE when the returned promise rejected
    \* ---- run (index.ts)
    runIn,          \* the action inputs, the environment and github.context
    run,            \* the locals of run() and the calls it made on core
    \* ---- uploadCoverage (upload.ts)
    upIn,           \* the options of the call and the clock
    up              \* the locals of uploadCoverage and the calls it made

filesVars == <<patternBlock, patterns, globCalls, globResults, allFiles,
               filesResult, filesError>>

ctxInputs == <<envWorkspace, cwd, fsFiles, coverageFiles, workingDirectoryInput>>
ctxVars == <<ctxInputs, repoRoot, pathSummary, coreLog, fsLog, walks, goLocals,
             ctxResult, ctxError>>

runVars == <<runIn, run>>

upVars == <<upIn, up>>

vars == <<pc, filesVars, ctxVars, runVars, upVars>>

-----------------------------------------------------------------------------
(* Bounds of the model *)

MaxBlockLen == 5
MaxFiles == 2
MaxSummaryFiles == 4
MaxUploadFiles == 2

-----------------------------------------------------------------------------
(* Generic string helpers *)

Range(s) == {s[i] : i \in DOMAIN s}

SeqsUpTo(S, n) == UNION {[1..k -> S] : k \in 0..n}

NoDup(s) == \A i, j \in DOMAIN s : i # j => s[i] # s[j]

\* ECMAScript WhiteSpace and LineTerminator characters used in the model
WhiteSpace == {" ", "\t", "\n", "\r"}

\* String.prototype.split(sep) for a one-character separator
RECURSIVE split(_, _)
split(s, sep) ==
    IF \A i \in DOMAIN s : s[i] # sep
    THEN <<s>>
    ELSE LET i == CHOOSE k \in DOMAIN s :
                      s[k] = sep /\ \A m \in 1..(k - 1) : s[m] # sep
         IN  <<SubSeq(s, 1, i - 1)>> \o split(SubSeq(s, i + 1, Len(s)), sep)

\* String.prototype.trim()
RECURSIVE trimStart(_)
trimStart(s) ==
    IF s # <<>> /\ Head(s) \in WhiteSpace THEN trimStart(Tail(s)) ELSE s

RECURSIVE trimEnd(_)
trimEnd(s) ==
    IF s # <<>> /\ s[Len(s)] \in WhiteSpace
    THEN trimEnd(SubSeq(s, 1, Len(s) - 1))
    ELSE s

trim(s) == trimEnd(trimStart(s))

\* Array.prototype.map / filter as used on the pattern lines
MapTrim(ss) == [i \in DOMAIN ss |-> trim(ss[i])]

RECURSIVE FilterNonEmpty(_)
FilterNonEmpty(ss) ==
    IF ss = <<>> THEN <<>>
    ELSE IF Len(Head(ss)) > 0
         THEN <<Head(ss)>> \o FilterNonEmpty(Tail(ss))
         ELSE FilterNonEmpty(Tail(ss))

-----------------------------------------------------------------------------
(* findCoverageFiles *)

NL == "\n"

\* pattern.split('\n').map((p) => p.trim()).filter((p) => p.length > 0)
KeepBlankPatterns(block) == MapTrim(split(block, NL))
UntrimmedPatterns(block) == FilterNonEmpty(split(block, NL))
SplitPatterns(block) == FilterNonEmpty(MapTrim(split(block, NL)))

\* the options object passed to glob.create
GlobOptions == [followSymbolicLinks |-> FALSE]

\* the argument list of glob.create for the pattern pat
GlobArgs(pat) == [pattern |-> pat, options |-> GlobOptions]

\* allFiles.push(...files)
PushAll(all, files) == all \o files

\* Array.from(new Set(allFiles)): a Set keeps the insertion order of the
\* first occurrence of each value
RECURSIVE SetInsertAll(_, _)
SetInsertAll(acc, rest) ==
    IF rest = <<>> THEN acc
    ELSE SetInsertAll(IF Head(rest) \in Range(acc) THEN acc
                      ELSE Append(acc, Head(rest)),
                      Tail(rest))

KeepDuplicates(files) == files
UniqueFiles(files) == SetInsertAll(<<>>, files)

\* The characters of pattern blocks and the paths the file system holds
BlockChars == {"a", " ", NL}
PatternBlocks == SeqsUpTo(BlockChars, MaxBlockLen)

GlobPaths == {<<"z">>, <<"a">>, <<"m">>}
\* what one globber.glob() may return: distinct paths, in any order
GlobOutcomes == {r \in SeqsUpTo(GlobPaths, Cardinality(GlobPaths)) : NoDup(r)}

\* the other functions are not running
IdleFiles ==
    /\ patternBlock = <<>>
    /\ patterns = <<>>
    /\ globCalls = <<>>
    /\ globResults = <<>>
    /\ allFiles = <<>>
    /\ filesResult = <<>>
    /\ filesError = FALSE

IdleCtx ==
    /\ envWorkspace = <<>>
    /\ cwd = <<>>
    /\ fsFiles = {}
    /\ coverageFiles = <<>>
    /\ workingDirectoryInput = <<>>
    /\ repoRoot = <<>>
    /\ pathSummary = [some |-> FALSE]
    /\ coreLog = <<>>
    /\ fsLog = <<>>
    /\ walks = <<>>
    /\ goLocals = [some |-> FALSE]
    /\ ctxResult = [some |-> FALSE]
    /\ ctxError = FALSE

IdleRun ==
    /\ runIn = <<>>
    /\ run = <<>>

IdleUpload ==
    /\ upIn = <<>>
    /\ up = <<>>

InitFiles ==
    /\ pc = "files_split"
    /\ patternBlock \in PatternBlocks
    /\ patterns = <<>>
    /\ globCalls = <<>>
    /\ globResults = <<>>
    /\ allFiles = <<>>
    /\ filesResult = <<>>
    /\ filesError = FALSE
    /\ IdleCtx
    /\ IdleRun
    /\ IdleUpload

FilesSplit ==
    /\ pc = "files_split"
    /\ patterns' = SplitPatterns(patternBlock)
    /\ pc' = "files_glob"
    /\ UNCHANGED <<patternBlock, globCalls, globResults, allFiles,
                   filesResult, filesError>>
    /\ UNCHANGED <<ctxVars, runVars, upVars>>

\* one iteration of `for (const pat of patterns)`: glob.create and glob()
\* resolve with a list of files
FilesGlob ==
    /\ pc = "files_glob"
    /\ Len(globCalls) < Len(patterns)
    /\ \E files \in GlobOutcomes :
          /\ globCalls' = Append(globCalls, GlobArgs(patterns[Len(globCalls) + 1]))
          /\ globResults' = Append(globResults, files)
          /\ allFiles' = PushAll(allFiles, files)
    /\ UNCHANGED <<pc, patternBlock, patterns, filesResult, filesError>>
    /\ UNCHANGED <<ctxVars, runVars, upVars>>

\* one iteration in which glob.create or glob() rejects: nothing catches it
FilesGlobThrows ==
    /\ pc = "files_glob"
    /\ Len(globCalls) < Len(patterns)
    /\ globCalls' = Append(globCalls, GlobArgs(patterns[Len(globCalls) + 1]))
    /\ filesError' = TRUE
    /\ pc' = "files_done"
    /\ UNCHANGED <<patternBlock, patterns, globResults, allFiles, filesResult>>
    /\ UNCHANGED <<ctxVars, runVars, upVars>>

FilesReturn ==
    /\ pc = "files_glob"
    /\ Len(globCalls) = Len(patterns)
    /\ filesResult' = UniqueFiles(allFiles)
    /\ pc' = "files_done"
    /\ UNCHANGED <<patternBlock, patterns, globCalls, globResults, allFiles,
                   filesError>>
    /\ UNCHANGED <<ctxVars, runVars, upVars>>

NextFiles == FilesSplit \/ FilesGlob \/ FilesGlobThrows \/ FilesReturn

SpecFiles == InitFiles /\ [][NextFiles]_vars

-----------------------------------------------------------------------------
(* String and path functions used by context.ts (POSIX flavour of `path`) *)

startsWith(s, prefix) ==
    Len(prefix) <= Len(s) /\ SubSeq(s, 1, Len(prefix)) = prefix

endsWith(s, suffix) ==
    Len(suffix) <= Len(s) /\ SubSeq(s, Len(s) - Len(suffix) + 1, Len(s)) = suffix

includes(s, sub) ==
    \E i \in 1..(Len(s) - Len(sub) + 1) : SubSeq(s, i, i + Len(sub) - 1) = sub

SLASH == "/"
DOT == <<".">>
DOTDOT == <<".", ".">>

isAbsolute(p) == Len(p) > 0 /\ p[1] = SLASH

\* the non-empty segments between the separators of p
Segments(p) == FilterNonEmpty(split(p, SLASH))

\* normalizeString of Node's path module, on segments: "." is dropped and
\* ".." removes the segment before it; above the start ".." is kept only in
\* a relative path (allowAboveRoot)
RECURSIVE NormalizeSegs(_, _, _)
NormalizeSegs(acc, rest, allowAboveRoot) ==
    IF rest = <<>> THEN acc
    ELSE LET seg == Head(rest) IN
         NormalizeSegs(
             IF seg = DOT THEN acc
             ELSE IF seg = DOTDOT
                  THEN IF acc # <<>> /\ acc[Len(acc)] # DOTDOT
                       THEN SubSeq(acc, 1, Len(acc) - 1)
                       ELSE IF allowAboveRoot THEN Append(acc, seg) ELSE acc
                  ELSE Append(acc, seg),
             Tail(rest), allowAboveRoot)

RECURSIVE JoinSegs(_)
JoinSegs(segs) ==
    IF segs = <<>> THEN <<>>
    ELSE IF Len(segs) = 1 THEN Head(segs)
         ELSE Head(segs) \o <<SLASH>> \o JoinSegs(Tail(segs))

AbsFromSegs(segs) == <<SLASH>> \o JoinSegs(segs)

\* path.resolve(base, p) for an absolute base: an absolute p wins
resolveFrom(base, p) ==
    IF isAbsolute(p)
    THEN AbsFromSegs(NormalizeSegs(<<>>, Segments(p), FALSE))
    ELSE AbsFromSegs(NormalizeSegs(<<>>, Segments(base) \o Segments(p), FALSE))

\* path.join(a, b): empty arguments are skipped, the result is normalized
\* and keeps a trailing separator
join(a, b) ==
    LET joined == IF a = <<>> THEN b
                  ELSE IF b = <<>> THEN a ELSE a \o <<SLASH>> \o b
        abs == isAbsolute(joined)
        trailing == joined # <<>> /\ joined[Len(joined)] = SLASH
        body == JoinSegs(NormalizeSegs(<<>>, Segments(joined), ~abs))
    IN  IF joined = <<>> THEN DOT
        ELSE IF abs
             THEN IF body = <<>> THEN <<SLASH>>
                  ELSE <<SLASH>> \o body \o (IF trailing THEN <<SLASH>> ELSE <<>>)
             ELSE IF body = <<>>
                  THEN IF trailing THEN <<".", SLASH>> ELSE DOT
                  ELSE body \o (IF trailing THEN <<SLASH>> ELSE <<>>)

RECURSIVE CommonPrefixLen(_, _)
CommonPrefixLen(a, b) ==
    IF a = <<>> \/ b = <<>> \/ Head(a) # Head(b) THEN 0
    ELSE 1 + CommonPrefixLen(Tail(a), Tail(b))

\* path.relative(from, to), both resolved against the working directory wd
relative(wd, from, to) ==
    LET f == NormalizeSegs(<<>>, Segments(resolveFrom(wd, from)), FALSE)
        t == NormalizeSegs(<<>>, Segments(resolveFrom(wd, to)), FALSE)
        c == CommonPrefixLen(f, t)
    IN  JoinSegs([i \in 1..(Len(f) - c) |-> DOTDOT] \o SubSeq(t, c + 1, Len(t)))

\* the string without its trailing separators (one is kept for the root)
RECURSIVE stripTrailingSlashes(_)
stripTrailingSlashes(p) ==
    IF Len(p) > 1 /\ p[Len(p)] = SLASH
    THEN stripTrailingSlashes(SubSeq(p, 1, Len(p) - 1))
    ELSE p

SlashPositions(p) == {i \in DOMAIN p : p[i] = SLASH}

\* path.dirname(p)
dirname(p) ==
    LET q == stripTrailingSlashes(p)
        sl == SlashPositions(q)
        last == CHOOSE i \in sl : \A j \in sl : j <= i
    IN  IF q = <<>> THEN DOT
        ELSE IF sl = {} THEN DOT
        ELSE IF last = 1 THEN <<SLASH>>
        ELSE stripTrailingSlashes(SubSeq(q, 1, last - 1))

\* path.basename(p)
KeepsDirectories(p) == p
basename(p) ==
    LET q == stripTrailingSlashes(p)
        sl == SlashPositions(q)
        last == CHOOSE i \in sl : \A j \in sl : j <= i
    IN  IF sl = {} THEN q
        ELSE SubSeq(q, last + 1, Len(q))

-----------------------------------------------------------------------------
(* context.ts: values *)

\* an optional value: undefined, or a value
None == [some |-> FALSE]
Some(x) == [some |-> TRUE, val |-> x]

\* `x || undefined` and the truthiness test of an optional string
Truthy(opt) == opt.some /\ opt.val # <<>>
KeepsEmptyString(str) == Some(str)
OrUndefined(str) == IF str = <<>> THEN None ELSE Some(str)

S_out == <<".", "o", "u", "t">>
S_cloverXml == <<"c", "l", "o", "v", "e", "r", ".", "x", "m", "l">>
S_lcovInfo == <<"l", "c", "o", "v", ".", "i", "n", "f", "o">>
S_goMod == <<"g", "o", ".", "m", "o", "d">>
S_packageJson == <<"p", "a", "c", "k", "a", "g", "e", ".", "j", "s", "o", "n">>
S_module == <<"m", "o", "d", "u", "l", "e">>

\* ^ of a multiline regular expression: the start, or after a line terminator
LineTerminators == {"\n", "\r"}

\* the end of the run of characters of `text` from i on that satisfy ws
\* (white space) or not: the first position after the run
RECURSIVE RunEnd(_, _, _)
RunEnd(text, i, ws) ==
    IF i <= Len(text) /\ ((text[i] \in WhiteSpace) = ws)
    THEN RunEnd(text, i + 1, ws)
    ELSE i

\* goModContent.match(/^module\s+([^\s]+)/m): the capture of the first match
ModuleMatchAt(text, i) ==
    /\ i = 1 \/ text[i - 1] \in LineTerminators
    /\ i + Len(S_module) <= Len(text)
    /\ SubSeq(text, i, i + Len(S_module) - 1) = S_module
    /\ text[i + Len(S_module)] \in WhiteSpace
    /\ RunEnd(text, i + Len(S_module), TRUE) <= Len(text)

moduleLineMatch(text) ==
    LET hits == {i \in DOMAIN text : ModuleMatchAt(text, i)}
        i == CHOOSE k \in hits : \A m \in hits : k <= m
        from == RunEnd(text, i + Len(S_module), TRUE)
    IN  IF hits = {} THEN None
        ELSE Some(SubSeq(text, from, RunEnd(text, from, FALSE) - 1))

\* what fs.readFileSync returns or that it throws
ReadThrows == [ok |-> FALSE]
ReadText(text) == [ok |-> TRUE, text |-> text]

\* the records of the calls made on fs
ExistsCall(path, result) ==
    [op |-> "existsSync", path |-> path, found |-> result, read |-> None]
ReadCall(path, read) ==
    [op |-> "readFileSync", path |-> path, found |-> TRUE, read |-> read]

\* detectGoModulePath(searchDir): files is the set of paths for which
\* existsSync answers true, read what readFileSync does on go.mod.
\* `catches` is FALSE only where the try block is removed.
GoModuleProbe(searchDir, files, read, catches) ==
    LET goModPath == join(searchDir, S_goMod) IN
    IF goModPath \notin files
    THEN [value |-> None, threw |-> FALSE,
          fs |-> <<ExistsCall(goModPath, FALSE)>>]
    ELSE LET calls == <<ExistsCall(goModPath, TRUE), ReadCall(goModPath, read)>> IN
         IF ~read.ok
         THEN [value |-> None, threw |-> ~catches, fs |-> calls]
         ELSE LET m == moduleLineMatch(read.text) IN
              [value |-> IF m.some /\ m.val # <<>> THEN Some(trim(m.val)) ELSE None,
               threw |-> FALSE, fs |-> calls]

UncaughtGoModulePath(searchDir, files, read) ==
    GoModuleProbe(searchDir, files, read, FALSE)
detectGoModulePath(searchDir, files, read) ==
    GoModuleProbe(searchDir, files, read, TRUE)

\* the loop of autoDetectGoWorkingDirectory / autoDetectFrontendWorkingDirectory:
\* `while (currentDir.startsWith(absoluteRepoRoot))`, probing currentDir for
\* the marker and moving to the parent
RECURSIVE MarkerWalk(_, _, _, _, _)
MarkerWalk(currentDir, absoluteRepoRoot, markerName, files, probed) ==
    IF ~startsWith(currentDir, absoluteRepoRoot)
    THEN [value |-> None, fs |-> probed]
    ELSE LET markerPath == join(currentDir, markerName) IN
         IF markerPath \in files
         THEN [value |-> OrUndefined(relative(absoluteRepoRoot, absoluteRepoRoot, currentDir)),
               fs |-> Append(probed, ExistsCall(markerPath, TRUE))]
         ELSE LET parentDir == dirname(currentDir)
                  seen == Append(probed, ExistsCall(markerPath, FALSE))
              IN  IF parentDir = currentDir
                  THEN [value |-> None, fs |-> seen]
                  ELSE MarkerWalk(parentDir, absoluteRepoRoot, markerName, files, seen)

\* autoDetectGoWorkingDirectory(coverageFile, repoRoot), run in directory wd
autoDetectGoWorkingDirectory(coverageFile, root, wd, files) ==
    MarkerWalk(dirname(resolveFrom(wd, coverageFile)), resolveFrom(wd, root),
               S_goMod, files, <<>>)

\* autoDetectFrontendWorkingDirectory(coverageFile, repoRoot)
autoDetectFrontendWorkingDirectory(coverageFile, root, wd, files) ==
    MarkerWalk(dirname(resolveFrom(wd, coverageFile)), resolveFrom(wd, root),
               S_packageJson, files, <<>>)

\* the predicates of coverageFiles.filter(...)
IsGoCoverage(f) == endsWith(f, S_out)
IsFrontendCoverage(f) == includes(f, S_cloverXml) \/ includes(f, S_lcovInfo)

goCoverageFilesOf(fs) == SelectSeq(fs, IsGoCoverage)
frontendCoverageFilesOf(fs) == SelectSeq(fs, IsFrontendCoverage)

-----------------------------------------------------------------------------
(* context.ts: summariseCoverageFiles and logCoveragePathSummary *)

\* the characters of the model in the order of their UTF-16 code units
CodeUnitOrder ==
    <<"\t", "\n", "\r", " ", "*", "-", ".", "/", "0", "1", "2", ">", "D",
      "a", "b", "c", "d", "e", "f", "g", "i", "j", "k", "l", "m", "n", "o",
      "p", "r", "s", "t", "u", "v", "w", "x", "z">>

CodeUnitRank(c) == CHOOSE i \in DOMAIN CodeUnitOrder : CodeUnitOrder[i] = c

\* a < b as Array.prototype.sort() compares strings: by code units
RECURSIVE StrLess(_, _)
StrLess(a, b) ==
    IF b = <<>> THEN FALSE
    ELSE IF a = <<>> THEN TRUE
    ELSE IF Head(a) = Head(b) THEN StrLess(Tail(a), Tail(b))
    ELSE CodeUnitRank(Head(a)) < CodeUnitRank(Head(b))

\* the elements of a finite set of strings as a sequence, in some order
RECURSIVE SetToSeq(_)
SetToSeq(S) ==
    IF S = {} THEN <<>>
    ELSE LET x == CHOOSE y \in S : TRUE IN <<x>> \o SetToSeq(S \ {x})

\* Array.from(insideDirs).sort()
SortedStrings(S) == SortSeq(SetToSeq(S), StrLess)

\* the characters of the model in the order of their primary collation
\* weights: white space, punctuation, symbols, digits, letters; a capital
\* letter has the primary weight of its small letter
CollationOrder ==
    <<"\t", "\n", "\r", " ", "-", ".", "*", "/", ">", "0", "1", "2",
      "a", "b", "c", "d", "e", "f", "g", "i", "j", "k", "l", "m", "n", "o",
      "p", "r", "s", "t", "u", "v", "w", "x", "z">>

IsCapital(c) == c = "D"
SmallOf(c) == IF c = "D" THEN "d" ELSE c

CollationRank(c) == CHOOSE i \in DOMAIN CollationOrder : CollationOrder[i] = SmallOf(c)

\* the primary comparison of two strings: -1, 0 or 1
RECURSIVE PrimaryCompare(_, _)
PrimaryCompare(a, b) ==
    IF a = <<>> /\ b = <<>> THEN 0
    ELSE IF a = <<>> THEN -1
    ELSE IF b = <<>> THEN 1
    ELSE IF CollationRank(Head(a)) < CollationRank(Head(b)) THEN -1
    ELSE IF CollationRank(Head(a)) > CollationRank(Head(b)) THEN 1
    ELSE PrimaryCompare(Tail(a), Tail(b))

\* the case comparison of two strings of equal primary weights: the small
\* letter goes first at the first difference
RECURSIVE CaseCompare(_, _)
CaseCompare(a, b) ==
    IF a = <<>> \/ b = <<>> THEN 0
    ELSE IF IsCapital(Head(a)) = IsCapital(Head(b)) THEN CaseCompare(Tail(a), Tail(b))
    ELSE IF IsCapital(Head(b)) THEN -1 ELSE 1

\* a.localeCompare(b): primary weights first, case only to break a tie
localeCompare(a, b) ==
    IF PrimaryCompare(a, b) # 0 THEN PrimaryCompare(a, b) ELSE CaseCompare(a, b)

\* a.name.localeCompare(b.name) < 0
NameBefore(a, b) == localeCompare(a.name, b.name) < 0

\* const resolved = path.isAbsolute(file) ? file : path.resolve(repoRoot, file)
resolvedOf(file, root, wd) ==
    IF isAbsolute(file) THEN file ELSE resolveFrom(resolveFrom(wd, root), file)

\* const relative = path.relative(repoRoot, resolved)
relativeOf(file, root, wd) == relative(wd, root, resolvedOf(file, root, wd))

\* relative && !relative.startsWith('..') && !path.isAbsolute(relative)
isInsideRepo(rel) ==
    /\ rel # <<>>
    /\ ~startsWith(rel, DOTDOT)
    /\ ~isAbsolute(rel)

\* directory === '' ? '.' : directory
directoryOf(rel) == IF dirname(rel) = <<>> THEN DOT ELSE dirname(rel)

EmptySummaryAcc == [insideDirs |-> {}, outsideRepo |-> <<>>, basenameCounts |-> <<>>]

\* basenameCounts.set(basename, (basenameCounts.get(basename) ?? 0) + 1);
\* the map is a sequence of entries in insertion order
CountBasename(counts, name) ==
    IF \E i \in DOMAIN counts : counts[i].name = name
    THEN [i \in DOMAIN counts |->
             IF counts[i].name = name
             THEN [name |-> name, count |-> counts[i].count + 1]
             ELSE counts[i]]
    ELSE Append(counts, [name |-> name, count |-> 1])

\* the body of `for (const file of coverageFiles)`
LeakySummaryStep(acc, file, root, wd) ==
    LET resolved == resolvedOf(file, root, wd)
        rel == relativeOf(file, root, wd)
    IN  [insideDirs |-> acc.insideDirs \cup {directoryOf(rel)},
         outsideRepo |-> IF isInsideRepo(rel) THEN acc.outsideRepo
                         ELSE Append(acc.outsideRepo,
                                     [original |-> file, resolved |-> resolved]),
         basenameCounts |-> CountBasename(acc.basenameCounts, basename(resolved))]
SummaryStep(acc, file, root, wd) ==
    LET resolved == resolvedOf(file, root, wd)
        rel == relativeOf(file, root, wd)
    IN  [insideDirs |-> IF isInsideRepo(rel)
                        THEN acc.insideDirs \cup {directoryOf(rel)}
                        ELSE acc.insideDirs,
         outsideRepo |-> IF isInsideRepo(rel) THEN acc.outsideRepo
                         ELSE Append(acc.outsideRepo,
                                     [original |-> file, resolved |-> resolved]),
         basenameCounts |-> CountBasename(acc.basenameCounts, basename(resolved))]

RECURSIVE SummaryLoop(_, _, _, _)
SummaryLoop(acc, files, root, wd) ==
    IF files = <<>> THEN acc
    ELSE SummaryLoop(SummaryStep(acc, Head(files), root, wd), Tail(files), root, wd)

\* .filter(([, count]) => count > 1)
CountedAtAll(entry) == entry.count > 0
IsDuplicate(entry) == entry.count > 1

summariseCoverageFiles(files, root, wd) ==
    LET acc == SummaryLoop(EmptySummaryAcc, files, root, wd) IN
    [insideDirs |-> SortedStrings(acc.insideDirs),
     outsideRepo |-> acc.outsideRepo,
     duplicateBasenames |-> SortSeq(SelectSeq(acc.basenameCounts, IsDuplicate), NameBefore)]

\* one call of core.startGroup / info / warning / endGroup
LogLine(level, msg, arg, n) == [level |-> level, msg |-> msg, arg |-> arg, n |-> n]

S_arrow == <<" ", "-", ">", " ">>

InsideDirLines(dirs) == [i \in DOMAIN dirs |-> LogLine("info", "dir", dirs[i], 0)]
OutsideLines(entries) ==
    [i \in DOMAIN entries |->
        LogLine("warning", "outside", entries[i].original \o S_arrow \o entries[i].resolved, 0)]
DuplicateLines(entries) ==
    [i \in DOMAIN entries |-> LogLine("info", "duplicate", entries[i].name, entries[i].count)]

\* logCoveragePathSummary: the lines it emits, none for an empty list
LogsEmptyList(files, root, wdInput, wd) ==
    IF Len(files) = 0
    THEN <<LogLine("startGroup", "Coverage path diagnostics", <<>>, 0),
           LogLine("endGroup", "", <<>>, 0)>>
    ELSE <<LogLine("startGroup", "Coverage path diagnostics", <<>>, 0),
           LogLine("info", "Repo root", root, 0),
           LogLine("endGroup", "", <<>>, 0)>>
logCoveragePathSummary(files, root, wdInput, wd) ==
    IF Len(files) = 0 THEN <<>>
    ELSE LET summary == summariseCoverageFiles(files, root, wd) IN
         <<LogLine("startGroup", "Coverage path diagnostics", <<>>, 0),
           LogLine("info", "Repo root", root, 0)>>
         \o (IF wdInput # <<>>
             THEN <<LogLine("info", "Working directory input", wdInput, 0)>>
             ELSE <<>>)
         \o (IF Len(summary.insideDirs) > 0
             THEN <<LogLine("info", "Coverage directories", <<>>, 0)>>
                  \o InsideDirLines(summary.insideDirs)
             ELSE <<LogLine("warning", "No coverage files inside the repo root", <<>>, 0)>>)
         \o (IF Len(summary.outsideRepo) > 0
             THEN <<LogLine("warning", "Coverage files resolved outside repo root", <<>>, 0)>>
                  \o OutsideLines(summary.outsideRepo)
                  \o <<LogLine("warning", "Paths outside the repository", <<>>, 0)>>
             ELSE <<>>)
         \o (IF Len(summary.duplicateBasenames) > 0
             THEN <<LogLine("info", "Duplicate coverage filenames detected", <<>>, 0)>>
                  \o DuplicateLines(summary.duplicateBasenames)
                  \o <<LogLine("info", "Basename collisions", <<>>, 0)>>
             ELSE <<>>)
         \o <<LogLine("endGroup", "", <<>>, 0)>>

-----------------------------------------------------------------------------
(* context.ts: detectPathContext *)

D_w == <<"/", "w">>
D_root == <<"/", "w", "/", "r">>
D_sibling == <<"/", "w", "/", "r", "2">>

F_deepOut == <<"a", "/", "b", "/", "c", ".", "o", "u", "t">>
F_rootOut == <<"/", "w", "/", "r", "/", "c", ".", "o", "u", "t">>
F_siblingOut == <<"/", "w", "/", "r", "2", "/", "c", ".", "o", "u", "t">>
F_awayOut == <<".", ".", "/", "o", "/", "c", ".", "o", "u", "t">>
F_lcov == <<"a", "/", "l", "c", "o", "v", ".", "i", "n", "f", "o">>

\* the coverage files discovery may return
CoverageFileNames ==
    {F_deepOut, F_rootOut, F_siblingOut, F_awayOut, F_lcov}

\* discovery returns a list without repetitions
CoverageFileLists == {fs \in SeqsUpTo(CoverageFileNames, MaxFiles) : NoDup(fs)}

\* the marker files the file system may hold
D_a == <<"/", "w", "/", "r", "/", "a">>
D_ab == <<"/", "w", "/", "r", "/", "a", "/", "b">>
GoModFiles == {join(d, S_goMod) : d \in {D_root, D_a, D_ab, D_sibling}}
PackageJsonFiles == {join(d, S_packageJson) : d \in {D_a}}

T_exampleModule ==
    <<"m", "o", "d", "u", "l", "e", " ",
      "e", "x", "a", "m", "p", "l", "e", ".", "c", "o", "m", "/", "f", "o", "o", "\n">>
T_noModule == <<"g", "o", " ", "1", "\n">>
T_indented == <<" ", "m", "o", "d", "u", "l", "e", " ", "m", "\n">>
T_secondLine == <<"/", "/", "\n", "m", "o", "d", "u", "l", "e", "\t", "m", " ", "x">>

\* what reading go.mod may do
ReadOutcomes ==
    {ReadThrows} \cup
    {ReadText(t) : t \in {T_exampleModule, T_noModule, T_indented, T_secondLine}}

\* GITHUB_WORKSPACE and the working directory of the process
Environments ==
    {[workspace |-> <<>>, cwd |-> D_root],
     [workspace |-> D_root, cwd |-> D_w]}

WorkingDirectoryInputs == {<<>>, <<"a", "/">>}

Context(workingDirectory, goModulePath, root) ==
    [workingDirectory |-> workingDirectory, goModulePath |-> goModulePath,
     repoRoot |-> root]

\* the context of the explicit branch: workingDirectory is the input itself
NormalizedExplicitContext(wdInput, goModulePath, root) ==
    Context(Some(stripTrailingSlashes(wdInput)), goModulePath, root)
ExplicitContext(wdInput, goModulePath, root) ==
    Context(Some(wdInput), goModulePath, root)

\* if (workingDir || goModulePath)
GoBranchNeedsBoth(workingDir, goModulePath) ==
    Truthy(workingDir) /\ Truthy(goModulePath)
GoBranchReturns(workingDir, goModulePath) ==
    Truthy(workingDir) \/ Truthy(goModulePath)

\* goCoverageFiles[0]
LastOf(fs) == fs[Len(fs)]
FirstOf(fs) == fs[1]

Walk(kind, file) == [kind |-> kind, file |-> file]

InitCtx ==
    /\ pc = "ctx_start"
    /\ \E env \in Environments : envWorkspace = env.workspace /\ cwd = env.cwd
    /\ fsFiles \in {g \cup p : g \in SUBSET GoModFiles, p \in SUBSET PackageJsonFiles}
    /\ coverageFiles \in CoverageFileLists
    /\ workingDirectoryInput \in WorkingDirectoryInputs
    /\ repoRoot = <<>>
    /\ pathSummary = None
    /\ coreLog = <<>>
    /\ fsLog = <<>>
    /\ walks = <<>>
    /\ goLocals = None
    /\ ctxResult = None
    /\ ctxError = FALSE
    /\ IdleFiles
    /\ IdleRun
    /\ IdleUpload

\* process.env.GITHUB_WORKSPACE || process.cwd()
RepoRootOf(workspace, dir) == IF workspace # <<>> THEN workspace ELSE dir

\* lines 25-27: repoRoot and the diagnostics
CtxLogSummary ==
    /\ pc = "ctx_start"
    /\ repoRoot' = RepoRootOf(envWorkspace, cwd)
    /\ pathSummary' = IF Len(coverageFiles) = 0 THEN None
                  ELSE Some(summariseCoverageFiles(coverageFiles, repoRoot', cwd))
    /\ coreLog' = logCoveragePathSummary(coverageFiles, repoRoot',
                                         workingDirectoryInput, cwd)
    /\ pc' = "ctx_explicit"
    /\ UNCHANGED <<ctxInputs, fsLog, walks, goLocals, ctxResult, ctxError>>
    /\ UNCHANGED <<filesVars, runVars, upVars>>

\* lines 30-38: the explicit working directory
CtxExplicit ==
    /\ pc = "ctx_explicit"
    /\ workingDirectoryInput # <<>>
    /\ \E read \in ReadOutcomes :
          LET probe == detectGoModulePath(join(repoRoot, workingDirectoryInput),
                                          fsFiles, read)
          IN  /\ fsLog' = fsLog \o probe.fs
              /\ ctxError' = probe.threw
              /\ ctxResult' =
                    IF probe.threw THEN None
                    ELSE Some(ExplicitContext(workingDirectoryInput, probe.value, repoRoot))
    /\ pc' = "ctx_done"
    /\ UNCHANGED <<ctxInputs, repoRoot, pathSummary, coreLog, walks, goLocals>>
    /\ UNCHANGED <<filesVars, runVars, upVars>>

CtxNoExplicit ==
    /\ pc = "ctx_explicit"
    /\ workingDirectoryInput = <<>>
    /\ pc' = "ctx_go"
    /\ UNCHANGED <<ctxInputs, repoRoot, pathSummary, coreLog, fsLog, walks, goLocals,
                   ctxResult, ctxError>>
    /\ UNCHANGED <<filesVars, runVars, upVars>>

\* lines 41-57: Go coverage files
CtxGo ==
    /\ pc = "ctx_go"
    /\ Len(goCoverageFilesOf(coverageFiles)) > 0
    /\ \E read \in ReadOutcomes :
          LET file == FirstOf(goCoverageFilesOf(coverageFiles))
              walk == autoDetectGoWorkingDirectory(file, repoRoot, cwd, fsFiles)
              workingDir == walk.value
              probe == detectGoModulePath(
                           IF Truthy(workingDir) THEN join(repoRoot, workingDir.val)
                           ELSE repoRoot,
                           fsFiles, read)
              goModulePath == probe.value
          IN  /\ walks' = Append(walks, Walk("go", file))
              /\ fsLog' = fsLog \o walk.fs \o probe.fs
              /\ goLocals' = Some([workingDir |-> workingDir,
                                   goModulePath |-> goModulePath])
              /\ ctxError' = probe.threw
              /\ IF probe.threw
                 THEN ctxResult' = None /\ pc' = "ctx_done"
                 ELSE IF GoBranchReturns(workingDir, goModulePath)
                      THEN /\ ctxResult' = Some(Context(workingDir, goModulePath, repoRoot))
                           /\ pc' = "ctx_done"
                      ELSE /\ ctxResult' = ctxResult
                           /\ pc' = "ctx_frontend"
    /\ UNCHANGED <<ctxInputs, repoRoot, pathSummary, coreLog>>
    /\ UNCHANGED <<filesVars, runVars, upVars>>

CtxNoGo ==
    /\ pc = "ctx_go"
    /\ Len(goCoverageFilesOf(coverageFiles)) = 0
    /\ pc' = "ctx_frontend"
    /\ UNCHANGED <<ctxInputs, repoRoot, pathSummary, coreLog, fsLog, walks, goLocals,
                   ctxResult, ctxError>>
    /\ UNCHANGED <<filesVars, runVars, upVars>>

\* lines 60-72: frontend coverage files
CtxFrontend ==
    /\ pc = "ctx_frontend"
    /\ Len(frontendCoverageFilesOf(coverageFiles)) > 0
    /\ LET file == FirstOf(frontendCoverageFilesOf(coverageFiles))
           walk == autoDetectFrontendWorkingDirectory(file, repoRoot, cwd, fsFiles)
           workingDir == walk.value
       IN  /\ walks' = Append(walks, Walk("frontend", file))
           /\ fsLog' = fsLog \o walk.fs
           /\ IF Truthy(workingDir)
              THEN /\ ctxResult' = Some(Context(workingDir, None, repoRoot))
                   /\ pc' = "ctx_done"
              ELSE /\ ctxResult' = ctxResult
                   /\ pc' = "ctx_fallback"
    /\ UNCHANGED <<ctxInputs, repoRoot, pathSummary, coreLog, goLocals, ctxError>>
    /\ UNCHANGED <<filesVars, runVars, upVars>>

CtxNoFrontend ==
    /\ pc = "ctx_frontend"
    /\ Len(frontendCoverageFilesOf(coverageFiles)) = 0
    /\ pc' = "ctx_fallback"
    /\ UNCHANGED <<ctxInputs, repoRoot, pathSummary, coreLog, fsLog, walks, goLocals,
                   ctxResult, ctxError>>
    /\ UNCHANGED <<filesVars, runVars, upVars>>

\* line 74: return { repoRoot }
CtxFallback ==
    /\ pc = "ctx_fallback"
    /\ ctxResult' = Some(Context(None, None, repoRoot))
    /\ pc' = "ctx_done"
    /\ UNCHANGED <<ctxInputs, repoRoot, pathSummary, coreLog, fsLog, walks, goLocals,
                   ctxError>>
    /\ UNCHANGED <<filesVars, runVars, upVars>>

NextCtx ==
    \/ CtxLogSummary
    \/ CtxExplicit
    \/ CtxNoExplicit
    \/ CtxGo
    \/ CtxNoGo
    \/ CtxFrontend
    \/ CtxNoFrontend
    \/ CtxFallback

SpecCtx == InitCtx /\ [][NextCtx]_vars

-----------------------------------------------------------------------------
(* context.ts: summariseCoverageFiles on its own *)

F_dotDir == <<".", ".", "c", "/", "x", ".", "o", "u", "t">>
F_capitalDeep == <<"a", "/", "D", ".", "o", "u", "t">>
F_capitalRoot == <<"D", ".", "o", "u", "t">>

\* the paths summariseCoverageFiles may be given
SummaryFileNames ==
    {F_deepOut, F_rootOut, F_siblingOut, F_awayOut, F_dotDir, F_capitalDeep,
     F_capitalRoot}

SummaryFileLists == {fs \in SeqsUpTo(SummaryFileNames, MaxSummaryFiles) : NoDup(fs)}

InitSummary ==
    /\ pc = "sum_start"
    /\ \E env \in Environments : envWorkspace = env.workspace /\ cwd = env.cwd
    /\ coverageFiles \in SummaryFileLists
    /\ fsFiles = {}
    /\ workingDirectoryInput = <<>>
    /\ repoRoot = <<>>
    /\ pathSummary = None
    /\ coreLog = <<>>
    /\ fsLog = <<>>
    /\ walks = <<>>
    /\ goLocals = None
    /\ ctxResult = None
    /\ ctxError = FALSE
    /\ IdleFiles
    /\ IdleRun
    /\ IdleUpload

\* summariseCoverageFiles(coverageFiles, repoRoot)
Summarise ==
    /\ pc = "sum_start"
    /\ repoRoot' = RepoRootOf(envWorkspace, cwd)
    /\ pathSummary' = Some(summariseCoverageFiles(coverageFiles, repoRoot', cwd))
    /\ pc' = "sum_done"
    /\ UNCHANGED <<ctxInputs, coreLog, fsLog, walks, goLocals, ctxResult, ctxError>>
    /\ UNCHANGED <<filesVars, runVars, upVars>>

NextSummary == Summarise

SpecSummary == InitSummary /\ [][NextSummary]_vars

-----------------------------------------------------------------------------
(* commit.ts: detectCommitInfo *)

E_pull_request == <<"p", "u", "l", "l", "_", "r", "e", "q", "u", "e", "s", "t">>
E_pull_request_target == <<"p", "u", "l", "l", "_", "r", "e", "q", "u", "e", "s", "t", "_", "t", "a", "r", "g", "e", "t">>
E_push == <<"p", "u", "s", "h">>
E_schedule == <<"s", "c", "h", "e", "d", "u", "l", "e">>
S_noreply == <<"@", "u", "s", "e", "r", "s", ".", "n", "o", "r", "e", "p", "l", "y", ".", "g", "i", "t", "h", "u", "b", ".", "c", "o", "m">>

CommitInfo(sha, message, authorName, authorEmail) ==
    [sha |-> sha, message |-> message, authorName |-> authorName,
     authorEmail |-> authorEmail]

PullRequestFamily(context, git) ==
    IF startsWith(context.eventName, E_pull_request) /\ context.payload.pull_request.some
    THEN LET pr == context.payload.pull_request.val IN
         [ok |-> TRUE, warned |-> FALSE,
          info |-> CommitInfo(pr.head.sha, pr.title, pr.user.login,
                              pr.user.login \o S_noreply)]
    ELSE IF context.eventName = E_push /\ context.payload.head_commit.some
    THEN LET commit == context.payload.head_commit.val IN
         [ok |-> TRUE, warned |-> FALSE,
          info |-> CommitInfo(commit.id, commit.message, commit.author.name,
                              commit.author.email)]
    ELSE IF git.ok
    THEN [ok |-> TRUE, warned |-> TRUE,
          info |-> CommitInfo(trim(git.sha), trim(git.message),
                              trim(git.authorName), trim(git.authorEmail))]
    ELSE [ok |-> FALSE, warned |-> TRUE, message |-> "Command failed: git rev-parse HEAD"]

\* detectCommitInfo(): context is github.context, git what the four
\* execSync('git ...') calls print, or that they throw
detectCommitInfo(context, git) ==
    IF context.eventName = E_pull_request /\ context.payload.pull_request.some
    THEN LET pr == context.payload.pull_request.val IN
         [ok |-> TRUE, warned |-> FALSE,
          info |-> CommitInfo(pr.head.sha, pr.title, pr.user.login,
                              pr.user.login \o S_noreply)]
    ELSE IF context.eventName = E_push /\ context.payload.head_commit.some
    THEN LET commit == context.payload.head_commit.val IN
         [ok |-> TRUE, warned |-> FALSE,
          info |-> CommitInfo(commit.id, commit.message, commit.author.name,
                              commit.author.email)]
    ELSE IF git.ok
    THEN [ok |-> TRUE, warned |-> TRUE,
          info |-> CommitInfo(trim(git.sha), trim(git.message),
                              trim(git.authorName), trim(git.authorEmail))]
    ELSE [ok |-> FALSE, warned |-> TRUE, message |-> "Command failed: git rev-parse HEAD"]

-----------------------------------------------------------------------------
(* index.ts: run *)

S_true == <<"t", "r", "u", "e">>
S_false == <<"f", "a", "l", "s", "e">>
S_apiDefault ==
    <<"h", "t", "t", "p", "s", ":", "/", "/", "a", "p", "i", ".", "c", "o", "v", "e", "r", "a", ".", "g", "g">>

ThePullRequest ==
    [number |-> 41,
     head |-> [ref |-> <<"f">>, sha |-> <<"h">>],
     base |-> [ref |-> <<"m">>, sha |-> <<"b">>],
     title |-> <<"T">>,
     user |-> [login |-> <<"u">>]]

TheHeadCommit ==
    [id |-> <<"c">>, message |-> <<"M">>,
     author |-> [name |-> <<"n">>, email |-> <<"e">>]]

\* what `git` prints for HEAD, each with its trailing newline
GitHead ==
    [ok |-> TRUE, sha |-> <<"g", "\n">>, message |-> <<"G", "\n", "\n">>,
     authorName |-> <<"n", "\n">>, authorEmail |-> <<"e", "\n">>]
GitFails == [ok |-> FALSE]

\* the pull request octokit.rest.pulls.list may find
TheOpenPull == [number |-> 7, base |-> [ref |-> <<"m">>, sha |-> <<"a">>]]

\* what the await of pulls.list may do
LookupOutcomes ==
    {[ok |-> FALSE, prs |-> <<>>], [ok |-> TRUE, prs |-> <<>>],
     [ok |-> TRUE, prs |-> <<TheOpenPull>>]}

\* what the await of findCoverageFiles may do
DiscoveryOutcomes ==
    {[ok |-> FALSE, files |-> <<>>]} \cup
    {[ok |-> TRUE, files |-> fs] :
        fs \in {l \in SeqsUpTo({F_lcov, F_rootOut}, MaxFiles) : NoDup(l)}}

\* what the await of uploadCoverage may do
UploadOutcomes ==
    {[ok |-> FALSE, message |-> "Upload failed with status 500", result |-> <<>>],
     [ok |-> TRUE, message |-> "",
      result |-> [reportId |-> <<"1">>, reportUrl |-> <<"u", "/", "1">>]],
     [ok |-> TRUE, message |-> "",
      result |-> [reportId |-> <<"1">>, reportUrl |-> <<>>]]}

RunInputs ==
    [apiKey : {<<>>, <<"k">>},
     repositoryInput : {<<>>, <<"x">>},
     envRepository : {<<>>, <<"o", "/", "r">>},
     branchInput : {<<>>, <<"d">>},
     envRefName : {<<>>, <<"m">>},
     eventName : {E_pull_request, E_pull_request_target, E_push, E_schedule},
     pull_request : {None, Some(ThePullRequest)},
     head_commit : {None, Some(TheHeadCommit)},
     githubToken : {<<>>, <<"t">>},
     failOnError : {S_true, S_false, <<>>},
     apiUrlInput : {<<>>, <<"v">>},
     git : {GitHead, GitFails}]

\* a || b for strings
Or(a, b) == IF a # <<>> THEN a ELSE b

\* github.context
ContextOf(in) ==
    [eventName |-> in.eventName,
     payload |-> [pull_request |-> in.pull_request, head_commit |-> in.head_commit]]

\* context.eventName?.startsWith('pull_request') && context.payload.pull_request
ExactlyPullRequest(context) ==
    context.eventName = E_pull_request /\ context.payload.pull_request.some
IsPullRequestEvent(context) ==
    startsWith(context.eventName, E_pull_request) /\ context.payload.pull_request.some

\* one call of core.setOutput
Output(name, value) == [name |-> name, value |-> value]

\* value.toString() of a small number, as decimal digits
Digits == <<"0", "1", "2", "3", "4", "5", "6", "7", "8", "9">>
RECURSIVE toString(_)
toString(n) ==
    IF n < 10 THEN <<Digits[n + 1]>>
    ELSE toString(n \div 10) \o <<Digits[(n % 10) + 1]>>

RunStart ==
    [repository |-> <<>>, branch |-> <<>>,
     prNumber |-> None, prBaseBranch |-> None, prBaseSha |-> None,
     commitInfo |-> None, coverageFiles |-> None,
     calls |-> <<>>, pullsListCalls |-> <<>>, uploadCalls |-> <<>>, result |-> None,
     error |-> None, outputs |-> <<>>, setFailed |-> <<>>, warnings |-> <<>>]

InitRun ==
    /\ pc = "run_inputs"
    /\ runIn \in RunInputs
    /\ run = RunStart
    /\ IdleFiles
    /\ IdleCtx
    /\ IdleUpload

\* throw inside the try block: control goes to the catch clause
Throw(message) ==
    /\ run' = [run EXCEPT !.error = Some(message)]
    /\ pc' = "run_catch"

\* lines 10-23: apiKey, repository and branch
RunReadInputs ==
    /\ pc = "run_inputs"
    /\ IF runIn.apiKey = <<>>
       THEN Throw("Input required and not supplied: api-key")
       ELSE /\ run' = [run EXCEPT
                  !.repository = Or(runIn.repositoryInput, Or(runIn.envRepository, <<>>)),
                  !.branch =
                      IF runIn.branchInput # <<>> THEN runIn.branchInput
                      ELSE IF IsPullRequestEvent(ContextOf(runIn))
                           THEN runIn.pull_request.val.head.ref
                           ELSE Or(runIn.envRefName, <<>>)]
            /\ pc' = "run_pr"
    /\ UNCHANGED <<runIn, filesVars, ctxVars, upVars>>

\* lines 25-35: the pull request of the event payload
RunPayloadPullRequest ==
    /\ pc = "run_pr"
    /\ IF IsPullRequestEvent(ContextOf(runIn))
       THEN LET pr == runIn.pull_request.val IN
            run' = [run EXCEPT !.prNumber = Some(pr.number),
                               !.prBaseBranch = Some(pr.base.ref),
                               !.prBaseSha = Some(pr.base.sha)]
       ELSE run' = run
    /\ pc' = "run_lookup"
    /\ UNCHANGED <<runIn, filesVars, ctxVars, upVars>>

\* line 37: the number is known, no lookup
RunLookupNotNeeded ==
    /\ pc = "run_lookup"
    /\ run.prNumber.some
    /\ pc' = "run_commit"
    /\ UNCHANGED <<runIn, run, filesVars, ctxVars, upVars>>

\* lines 38-39, 64-66: no GITHUB_TOKEN
RunLookupNoToken ==
    /\ pc = "run_lookup"
    /\ ~run.prNumber.some
    /\ runIn.githubToken = <<>>
    /\ pc' = "run_commit"
    /\ UNCHANGED <<runIn, run, filesVars, ctxVars, upVars>>

\* const [owner, repoName] = repository.split('/')
OwnerOf(repository) == split(repository, SLASH)[1]
RepoNameOf(repository) ==
    IF Len(split(repository, SLASH)) >= 2 THEN split(repository, SLASH)[2] ELSE <<>>

CanLookup(r) ==
    OwnerOf(r.repository) # <<>> /\ RepoNameOf(r.repository) # <<>> /\ r.branch # <<>>

\* lines 40-63: the lookup through the API, with its own try block
RunLookup ==
    /\ pc = "run_lookup"
    /\ ~run.prNumber.some
    /\ runIn.githubToken # <<>>
    /\ IF CanLookup(run)
       THEN \E outcome \in LookupOutcomes :
               LET call == [owner |-> OwnerOf(run.repository),
                            repo |-> RepoNameOf(run.repository),
                            head |-> OwnerOf(run.repository) \o <<":">> \o run.branch]
                   called == [run EXCEPT !.pullsListCalls = Append(@, call)]
               IN  run' =
                       IF ~outcome.ok
                       THEN [called EXCEPT !.warnings =
                                Append(@, "Unable to look up pull request metadata")]
                       ELSE IF Len(outcome.prs) > 0
                       THEN [called EXCEPT
                                !.prNumber = Some(outcome.prs[1].number),
                                !.prBaseBranch = Some(outcome.prs[1].base.ref),
                                !.prBaseSha = Some(outcome.prs[1].base.sha)]
                       ELSE called
       ELSE run' = run
    /\ pc' = "run_commit"
    /\ UNCHANGED <<runIn, filesVars, ctxVars, upVars>>

\* lines 69-81: the remaining inputs and detectCommitInfo
RunDetectCommit ==
    /\ pc = "run_commit"
    /\ LET commit == detectCommitInfo(ContextOf(runIn), runIn.git)
           warned == IF commit.warned
                     THEN Append(run.warnings, "Unable to detect commit from GitHub context, using git HEAD")
                     ELSE run.warnings
       IN  IF commit.ok
           THEN /\ run' = [run EXCEPT !.commitInfo = Some(commit.info),
                                      !.calls = Append(@, "detectCommitInfo"),
                                      !.warnings = warned]
                /\ pc' = "run_find"
           ELSE /\ run' = [run EXCEPT !.error = Some(commit.message),
                                      !.calls = Append(@, "detectCommitInfo"),
                                      !.warnings = warned]
                /\ pc' = "run_catch"
    /\ UNCHANGED <<runIn, filesVars, ctxVars, upVars>>

\* line 85: findCoverageFiles
RunFindFiles ==
    /\ pc = "run_find"
    /\ \E outcome \in DiscoveryOutcomes :
          IF outcome.ok
          THEN /\ run' = [run EXCEPT !.coverageFiles = Some(outcome.files),
                                     !.calls = Append(@, "findCoverageFiles")]
               /\ pc' = "run_check"
          ELSE /\ run' = [run EXCEPT !.error = Some("glob failed"),
                                     !.calls = Append(@, "findCoverageFiles")]
               /\ pc' = "run_catch"
    /\ UNCHANGED <<runIn, filesVars, ctxVars, upVars>>

\* const failOnError = core.getInput('fail-on-error') === 'true'
FailsUnlessFalse(in) == in.failOnError # S_false
failOnErrorOf(in) == in.failOnError = S_true

\* lines 87-97: nothing was found
RunNoFiles ==
    /\ pc = "run_check"
    /\ Len(run.coverageFiles.val) = 0
    /\ IF failOnErrorOf(runIn)
       THEN Throw("No coverage files found matching pattern")
       ELSE /\ run' = [run EXCEPT
                  !.warnings = Append(@, "No coverage files found matching pattern"),
                  !.outputs = @ \o <<Output("status", <<"s", "k", "i", "p", "p", "e", "d">>),
                                     Output("files-uploaded", <<"0">>)>>]
            /\ pc' = "run_done"
    /\ UNCHANGED <<runIn, filesVars, ctxVars, upVars>>

\* the options object of lines 106-119; it has no pathContext property, which
\* uploadCoverage therefore reads as undefined
UploadOptionsOf(in, r) ==
    [apiKey |-> in.apiKey,
     apiUrl |-> Or(in.apiUrlInput, S_apiDefault),
     repository |-> r.repository,
     branch |-> r.branch,
     commitSha |-> r.commitInfo.val.sha,
     commitMessage |-> r.commitInfo.val.message,
     authorName |-> r.commitInfo.val.authorName,
     authorEmail |-> r.commitInfo.val.authorEmail,
     coverageFiles |-> r.coverageFiles.val,
     pathContext |-> None,
     prNumber |-> r.prNumber,
     prBaseBranch |-> r.prBaseBranch,
     prBaseSha |-> r.prBaseSha]

\* lines 99-127: the upload and the outputs of a success
RunUpload ==
    /\ pc = "run_check"
    /\ Len(run.coverageFiles.val) > 0
    /\ \E outcome \in UploadOutcomes :
          LET called == [run EXCEPT !.uploadCalls = Append(@, UploadOptionsOf(runIn, run)),
                                    !.calls = Append(@, "uploadCoverage")]
          IN  IF outcome.ok
              THEN /\ run' = [called EXCEPT
                         !.result = Some(outcome.result),
                         !.outputs = @ \o
                             <<Output("status", <<"s", "u", "c", "c", "e", "s", "s">>),
                               Output("files-uploaded", toString(Len(run.coverageFiles.val))),
                               Output("coverage-url", outcome.result.reportUrl)>>]
                   /\ pc' = "run_done"
              ELSE /\ run' = [called EXCEPT !.error = Some(outcome.message)]
                   /\ pc' = "run_catch"
    /\ UNCHANGED <<runIn, filesVars, ctxVars, upVars>>

\* lines 132-133: the outputs of a failure
ReportsDiscoveredCount(r) ==
    <<Output("status", <<"f", "a", "i", "l", "e", "d">>),
      Output("files-uploaded",
             IF r.coverageFiles.some THEN toString(Len(r.coverageFiles.val))
             ELSE <<"0">>)>>
FailedOutputs(r) ==
    <<Output("status", <<"f", "a", "i", "l", "e", "d">>),
      Output("files-uploaded", <<"0">>)>>

\* lines 128-138: the catch clause
RunCatch ==
    /\ pc = "run_catch"
    /\ run' = [run EXCEPT
          !.setFailed = Append(@, run.error.val),
          !.outputs = @ \o FailedOutputs(run),
          !.warnings = IF runIn.failOnError # S_true
                       THEN Append(@, "Upload failed but fail-on-error is false, continuing...")
                       ELSE @]
    /\ pc' = "run_done"
    /\ UNCHANGED <<runIn, filesVars, ctxVars, upVars>>

NextRun ==
    \/ RunReadInputs
    \/ RunPayloadPullRequest
    \/ RunLookupNotNeeded
    \/ RunLookupNoToken
    \/ RunLookup
    \/ RunDetectCommit
    \/ RunFindFiles
    \/ RunNoFiles
    \/ RunUpload
    \/ RunCatch

SpecRun == InitRun /\ [][NextRun]_vars

-----------------------------------------------------------------------------
(* upload.ts: uploadCoverage *)

\* Strings are sequences of UTF-16 code units and Buffers are sequences of
\* bytes.  An ASCII character stands for its code unit and for its byte; the
\* code unit U+00HH above 0x7F is "uHH" and the byte 0xHH is "xHH".
HighUnits == {"u82", "u83", "uA9", "uC2", "uC3", "uE9"}
HighBytes == {"x82", "x83", "xA9", "xC2", "xC3", "xE9"}

\* the UTF-8 encoding of one code unit below U+0800
Utf8OfUnit(c) ==
    CASE c = "u82" -> <<"xC2", "x82">>
      [] c = "u83" -> <<"xC2", "x83">>
      [] c = "uA9" -> <<"xC2", "xA9">>
      [] c = "uC2" -> <<"xC3", "x82">>
      [] c = "uC3" -> <<"xC3", "x83">>
      [] c = "uE9" -> <<"xC3", "xA9">>
      [] OTHER -> <<c>>

\* the code unit a byte decodes to as latin1 ('binary')
Latin1OfByte(b) ==
    CASE b = "x82" -> "u82"
      [] b = "x83" -> "u83"
      [] b = "xA9" -> "uA9"
      [] b = "xC2" -> "uC2"
      [] b = "xC3" -> "uC3"
      [] b = "xE9" -> "uE9"
      [] OTHER -> b

RECURSIVE Utf8Range(_, _, _)
Utf8Range(str, lo, hi) ==
    IF lo > hi THEN <<>>
    ELSE IF lo = hi THEN Utf8OfUnit(str[lo])
    ELSE LET mid == (lo + hi) \div 2
         IN  Utf8Range(str, lo, mid) \o Utf8Range(str, mid + 1, hi)

\* Buffer.from(string): the UTF-8 bytes of the string
BufferFrom(str) == Utf8Range(str, 1, Len(str))

\* Buffer.concat(parts)
RECURSIVE BufferConcat(_)
BufferConcat(buffers) ==
    IF buffers = <<>> THEN <<>> ELSE Head(buffers) \o BufferConcat(Tail(buffers))

\* body.toString('binary'): one code unit per byte
toBinaryString(buffer) == [i \in DOMAIN buffer |-> Latin1OfByte(buffer[i])]

\* the bytes the HTTP client writes for string data: its UTF-8 encoding
Transmitted(data) == Utf8Range(data, 1, Len(data))

CRLF == <<"\r", "\n">>
S_dashes ==
    <<"-", "-">>
S_boundaryPrefix ==
    <<"-", "-", "-", "-", "C", "o", "v", "e", "r", "a", "U", "p", "l", "o",
      "a", "d">>
S_dispositionName ==
    <<"C", "o", "n", "t", "e", "n", "t", "-", "D", "i", "s", "p", "o", "s",
      "i", "t", "i", "o", "n", ":", " ", "f", "o", "r", "m", "-", "d", "a",
      "t", "a", ";", " ", "n", "a", "m", "e", "=", "\"">>
S_quote ==
    <<"\"">>
S_filenameAttr ==
    <<"\"", ";", " ", "f", "i", "l", "e", "n", "a", "m", "e", "=", "\"">>
S_octetStream ==
    <<"C", "o", "n", "t", "e", "n", "t", "-", "T", "y", "p", "e", ":", " ",
      "a", "p", "p", "l", "i", "c", "a", "t", "i", "o", "n", "/", "o", "c",
      "t", "e", "t", "-", "s", "t", "r", "e", "a", "m">>
S_multipart ==
    <<"m", "u", "l", "t", "i", "p", "a", "r", "t", "/", "f", "o", "r", "m",
      "-", "d", "a", "t", "a", ";", " ", "b", "o", "u", "n", "d", "a", "r",
      "y", "=">>
S_bearer ==
    <<"B", "e", "a", "r", "e", "r", " ">>
S_coveragePath ==
    <<"/", "a", "p", "i", "/", "v", "1", "/", "c", "o", "v", "e", "r", "a",
      "g", "e">>
S_uploadFailed ==
    <<"U", "p", "l", "o", "a", "d", " ", "f", "a", "i", "l", "e", "d", " ",
      "w", "i", "t", "h", " ", "s", "t", "a", "t", "u", "s", " ">>
S_colon ==
    <<":", " ">>
S_unknown ==
    <<"u", "n", "k", "n", "o", "w", "n">>
S_NaN ==
    <<"N", "a", "N">>
S_Infinity ==
    <<"I", "n", "f", "i", "n", "i", "t", "y">>
K_repository ==
    <<"r", "e", "p", "o", "s", "i", "t", "o", "r", "y">>
K_branch ==
    <<"b", "r", "a", "n", "c", "h">>
K_commit_sha ==
    <<"c", "o", "m", "m", "i", "t", "_", "s", "h", "a">>
K_commit_message ==
    <<"c", "o", "m", "m", "i", "t", "_", "m", "e", "s", "s", "a", "g", "e">>
K_author_name ==
    <<"a", "u", "t", "h", "o", "r", "_", "n", "a", "m", "e">>
K_author_email ==
    <<"a", "u", "t", "h", "o", "r", "_", "e", "m", "a", "i", "l">>
K_working_directory ==
    <<"w", "o", "r", "k", "i", "n", "g", "_", "d", "i", "r", "e", "c", "t",
      "o", "r", "y">>
K_go_module_path ==
    <<"g", "o", "_", "m", "o", "d", "u", "l", "e", "_", "p", "a", "t", "h">>
K_repo_root ==
    <<"r", "e", "p", "o", "_", "r", "o", "o", "t">>
K_pr_number ==
    <<"p", "r", "_", "n", "u", "m", "b", "e", "r">>
K_pr_base_branch ==
    <<"p", "r", "_", "b", "a", "s", "e", "_", "b", "r", "a", "n", "c", "h">>
K_pr_base_sha ==
    <<"p", "r", "_", "b", "a", "s", "e", "_", "s", "h", "a">>
K_files ==
    <<"f", "i", "l", "e", "s", "[", "]">>
R_notFound ==
    <<"n", "o", "t", " ", "f", "o", "u", "n", "d">>
R_full ==
    <<"{", "\"", "r", "e", "p", "o", "r", "t", "_", "i", "d", "\"", ":",
      "\"", "r", "\"", ",", "\"", "i", "d", "\"", ":", "\"", "i", "\"", ",",
      "\"", "r", "e", "p", "o", "r", "t", "_", "u", "r", "l", "\"", ":",
      "\"", "u", "\"", "}">>
R_idOnly ==
    <<"{", "\"", "i", "d", "\"", ":", "\"", "i", "\"", "}">>
R_empty ==
    <<"{", "}">>
R_array ==
    <<"[", "]">>
R_null ==
    <<"n", "u", "l", "l">>
R_numericId ==
    <<"{", "\"", "r", "e", "p", "o", "r", "t", "_", "i", "d", "\"", ":",
      "\"", "\"", ",", "\"", "i", "d", "\"", ":", "7", ",", "\"", "r", "e",
      "p", "o", "r", "t", "_", "u", "r", "l", "\"", ":", "n", "u", "l", "l",
      "}">>

\* `----CoveraUpload${Date.now()}`
BoundaryOf(now) == S_boundaryPrefix \o toString(now)

\* lines 91-93: the text of one field part
FieldPartText(boundary, key, value) ==
    S_dashes \o boundary \o CRLF
    \o S_dispositionName \o key \o S_quote \o CRLF \o CRLF
    \o value \o CRLF

\* lines 105-107: the text that precedes the content of a file
FileHeaderText(boundary, fileName) ==
    S_dashes \o boundary \o CRLF
    \o S_dispositionName \o K_files \o S_filenameAttr \o fileName \o S_quote \o CRLF
    \o S_octetStream \o CRLF \o CRLF

\* line 115: the final boundary
ClosingText(boundary) == S_dashes \o boundary \o S_dashes \o CRLF

\* values of type number | undefined, and what a caller may pass instead
Undefined == [type |-> "undefined", kind |-> "none", val |-> 0]
Num(n) == [type |-> "number", kind |-> "finite", val |-> n]
NaN == [type |-> "number", kind |-> "nan", val |-> 0]
Infinity == [type |-> "number", kind |-> "infinite", val |-> 0]
NumericString(n) == [type |-> "string", kind |-> "finite", val |-> n]

\* prNumber.toString()
numberToString(n) ==
    IF n.kind = "finite" THEN toString(n.val)
    ELSE IF n.kind = "nan" THEN S_NaN
    ELSE S_Infinity

\* typeof prNumber === 'number' && !Number.isNaN(prNumber)
IsUsableNumber(n) == n.type = "number" /\ n.kind # "nan"

Field(key, value) == [key |-> key, value |-> value]

\* lines 56-63: the six fields every upload carries
RequiredFields(o) ==
    <<Field(K_repository, o.repository),
      Field(K_branch, o.branch),
      Field(K_commit_sha, o.commitSha),
      Field(K_commit_message, o.commitMessage),
      Field(K_author_name, o.authorName),
      Field(K_author_email, o.authorEmail)>>

\* if (value) fields.key = value, for a value of type string | undefined
EmitsEmptyToo(key, value) ==
    IF value.some THEN <<Field(key, value.val)>> ELSE <<>>
FieldIfTruthy(key, value) ==
    IF Truthy(value) THEN <<Field(key, value.val)>> ELSE <<>>

\* lines 66-76
PathContextFields(o) ==
    IF o.pathContext.some
    THEN FieldIfTruthy(K_working_directory, o.pathContext.val.workingDirectory)
         \o FieldIfTruthy(K_go_module_path, o.pathContext.val.goModulePath)
         \o FieldIfTruthy(K_repo_root, Some(o.pathContext.val.repoRoot))
    ELSE <<>>

\* lines 78-86
PullRequestFields(o) ==
    (IF IsUsableNumber(o.prNumber)
     THEN <<Field(K_pr_number, numberToString(o.prNumber))>>
     ELSE <<>>)
    \o FieldIfTruthy(K_pr_base_branch, o.prBaseBranch)
    \o FieldIfTruthy(K_pr_base_sha, o.prBaseSha)

\* Object.entries(fields): string keys in the order they were first set
PullRequestFirst(o) == PullRequestFields(o) \o RequiredFields(o) \o PathContextFields(o)
FieldsOf(o) == RequiredFields(o) \o PathContextFields(o) \o PullRequestFields(o)

\* values parsed from JSON
J_undefined == [t |-> "undefined", s |-> <<>>, n |-> 0]
J_null == [t |-> "null", s |-> <<>>, n |-> 0]
J_string(str) == [t |-> "string", s |-> str, n |-> 0]
J_number(n) == [t |-> "number", s |-> <<>>, n |-> n]

\* the truthiness of a parsed value
J_truthy(v) ==
    \/ v.t = "string" /\ v.s # <<>>
    \/ v.t = "number" /\ v.n # 0

\* a || b
J_or(a, b) == IF J_truthy(a) THEN a ELSE b

\* lines 143-146
ReportIdOf(result) == J_or(result.report_id, J_or(result.id, J_string(S_unknown)))
ReportUrlOf(result) == J_or(result.report_url, J_string(<<>>))

JsonObject(report_id, id, report_url) ==
    [report_id |-> report_id, id |-> id, report_url |-> report_url]

\* JSON.parse may give a value that is no object: an array, null
J_array == [t |-> "array", s |-> <<>>, n |-> 0]
IsRecord(value) == "t" \notin DOMAIN value

\* result.report_id on null: a TypeError
PropertyReadThrows(value) == ~IsRecord(value) /\ value.t \in {"null", "undefined"}

\* the properties report_id, id and report_url as read from a parsed value:
\* all undefined on a value that is no object
PropertiesOf(value) ==
    IF IsRecord(value) THEN value
    ELSE JsonObject(J_undefined, J_undefined, J_undefined)

\* response bodies: the raw text, and what JSON.parse makes of it (nothing
\* when it throws)
ResponseBody(text, parsed) == [text |-> text, parsed |-> parsed]

B_notFound == ResponseBody(R_notFound, None)
B_full ==
    ResponseBody(R_full,
        Some(JsonObject(J_string(<<"r">>), J_string(<<"i">>), J_string(<<"u">>))))
B_idOnly ==
    ResponseBody(R_idOnly, Some(JsonObject(J_undefined, J_string(<<"i">>), J_undefined)))
B_empty ==
    ResponseBody(R_empty, Some(JsonObject(J_undefined, J_undefined, J_undefined)))
B_array == ResponseBody(R_array, Some(J_array))
B_null == ResponseBody(R_null, Some(J_null))
B_numericId ==
    ResponseBody(R_numericId, Some(JsonObject(J_string(<<>>), J_number(7), J_null)))

\* what the server may answer
Responses ==
    {[statusCode |-> 404, body |-> B_notFound],
     [statusCode |-> 500, body |-> B_full],
     [statusCode |-> 204, body |-> B_empty],
     [statusCode |-> 200, body |-> B_full],
     [statusCode |-> 201, body |-> B_idOnly],
     [statusCode |-> 200, body |-> B_empty],
     [statusCode |-> 201, body |-> B_numericId],
     [statusCode |-> 200, body |-> B_notFound],
     [statusCode |-> 200, body |-> B_array],
     [statusCode |-> 201, body |-> B_null]}

\* if (statusCode !== 200 && statusCode !== 201)
AcceptsEverySuccess(statusCode) == statusCode < 200 \/ statusCode >= 300
IsFailureStatus(statusCode) == statusCode # 200 /\ statusCode # 201

\* `Upload failed with status ${statusCode}: ${responseBody}`
StatusErrorMessage(statusCode, text) ==
    S_uploadFailed \o toString(statusCode) \o S_colon \o text

UploadError(kind, message) == [kind |-> kind, message |-> message]

\* the coverage files of the call and what reading one may return
F_clover == <<"/", "w", "/", "r", "/", "c", "l", "o", "v", "e", "r", ".", "x", "m",
      "l">>
UploadFileNames == {F_deepOut, F_lcov, F_clover}
UploadFileLists == {fs \in SeqsUpTo(UploadFileNames, MaxUploadFiles) : NoDup(fs)}
FileContents == {<<"x">>, <<"xE9", "x">>}

PathContexts ==
    {None,
     Some(Context(Some(<<"a">>), Some(<<"m">>), D_root)),
     Some(Context(None, None, D_root)),
     Some(Context(Some(<<>>), Some(<<>>), <<>>))}

\* prNumber, prBaseBranch, prBaseSha
PullRequestOptions ==
    {<<Undefined, None, None>>,
     <<Num(41), Some(<<"m">>), Some(<<"b">>)>>,
     <<Num(0), Some(<<>>), Some(<<>>)>>,
     <<Num(41), None, None>>,
     <<NaN, Some(<<"m">>), None>>,
     <<Infinity, None, Some(<<"b">>)>>,
     <<NumericString(41), None, None>>}

CommitMessages == {<<"M">>, <<"\"", "\r", "\n", "uE9">>}

UploadOptions ==
    {[apiKey |-> <<"k">>, apiUrl |-> S_apiDefault,
      repository |-> <<"o", "/", "r">>, branch |-> <<"m">>,
      commitSha |-> <<"c">>, commitMessage |-> message,
      authorName |-> <<"n">>, authorEmail |-> <<"e">>,
      coverageFiles |-> files, pathContext |-> context,
      prNumber |-> pr[1], prBaseBranch |-> pr[2], prBaseSha |-> pr[3]] :
        message \in CommitMessages, files \in UploadFileLists,
        context \in PathContexts, pr \in PullRequestOptions}

UploadStart ==
    [boundary |-> <<>>, fields |-> <<>>, parts |-> <<>>, reads |-> <<>>,
     contents |-> <<>>, requests |-> 0,
     post |-> None, response |-> None, parsed |-> FALSE,
     result |-> None, error |-> None]

InitUpload ==
    /\ pc = "up_fields"
    /\ upIn \in [options : UploadOptions, now : {7}]
    /\ up = UploadStart
    /\ IdleFiles
    /\ IdleCtx
    /\ IdleRun

\* where control goes when the awaited request rejects or a throw statement
\* runs: out of uploadCoverage, which has no catch clause and no loop around
\* the request
RetriesRequest(u) == IF u.requests < 2 THEN "up_files" ELSE "up_done"
ContinuesAfterThrow(u) == "up_files"
Raised(u) == "up_done"

\* lines 49-96: the boundary, the fields and their parts
UpBuildFields ==
    /\ pc = "up_fields"
    /\ LET boundary == BoundaryOf(upIn.now)
           fields == FieldsOf(upIn.options)
       IN  up' = [up EXCEPT
                    !.boundary = boundary,
                    !.fields = fields,
                    !.parts = [i \in DOMAIN fields |->
                                  BufferFrom(FieldPartText(boundary, fields[i].key,
                                                           fields[i].value))]]
    /\ pc' = "up_files"
    /\ UNCHANGED <<upIn, filesVars, ctxVars, runVars>>

\* the file the loop of line 99 is at
NextFile == upIn.options.coverageFiles[Len(up.reads) + 1]

\* lines 99-112: one file of the loop
UpReadFile ==
    /\ pc = "up_files"
    /\ Len(up.reads) < Len(upIn.options.coverageFiles)
    /\ \E fileContent \in FileContents :
          LET filePath == NextFile
              fileName == basename(filePath)
          IN  up' = [up EXCEPT
                       !.reads = Append(@, filePath),
                       !.contents = Append(@, fileContent),
                       !.parts = @ \o <<BufferFrom(FileHeaderText(up.boundary, fileName)),
                                        fileContent,
                                        BufferFrom(CRLF)>>]
    /\ pc' = "up_files"
    /\ UNCHANGED <<upIn, filesVars, ctxVars, runVars>>

\* line 101: fs.readFileSync throws
UpReadFileThrows ==
    /\ pc = "up_files"
    /\ Len(up.reads) < Len(upIn.options.coverageFiles)
    /\ up' = [up EXCEPT !.reads = Append(@, NextFile),
                        !.error = Some(UploadError("read", NextFile))]
    /\ pc' = Raised(up)
    /\ UNCHANGED <<upIn, filesVars, ctxVars, runVars>>

\* lines 114-129: the final boundary, the body and the request
UpPost ==
    /\ pc = "up_files"
    /\ Len(up.reads) = Len(upIn.options.coverageFiles)
    /\ LET parts == Append(up.parts, BufferFrom(ClosingText(up.boundary)))
           body == BufferConcat(parts)
       IN  up' = [up EXCEPT
                    !.parts = parts,
                    !.requests = @ + 1,
                    !.post = Some([url |-> upIn.options.apiUrl \o S_coveragePath,
                                   data |-> toBinaryString(body),
                                   headers |->
                                       [contentType |-> S_multipart \o up.boundary,
                                        authorization |-> S_bearer \o upIn.options.apiKey,
                                        contentLength |-> toString(Len(body))]])]
    /\ pc' = "up_response"
    /\ UNCHANGED <<upIn, filesVars, ctxVars, runVars>>

\* line 125: the request fails before any response
UpPostRejects ==
    /\ pc = "up_response"
    /\ up' = [up EXCEPT !.error = Some(UploadError("network", <<>>))]
    /\ pc' = Raised(up)
    /\ UNCHANGED <<upIn, filesVars, ctxVars, runVars>>

\* lines 131-146: the response
UpResponse ==
    /\ pc = "up_response"
    /\ \E response \in Responses :
          LET responseBody == response.body.text
              answered == [up EXCEPT !.response = Some(response)]
          IN  up' =
                 IF IsFailureStatus(response.statusCode)
                 THEN [answered EXCEPT
                          !.error = Some(UploadError("status",
                                        StatusErrorMessage(response.statusCode,
                                                           responseBody)))]
                 ELSE IF ~response.body.parsed.some
                 THEN [answered EXCEPT !.parsed = TRUE,
                                       !.error = Some(UploadError("parse", <<>>))]
                 ELSE IF PropertyReadThrows(response.body.parsed.val)
                 THEN [answered EXCEPT !.parsed = TRUE,
                                       !.error = Some(UploadError("type", <<>>))]
                 ELSE LET result == PropertiesOf(response.body.parsed.val) IN
                      [answered EXCEPT
                          !.parsed = TRUE,
                          !.result = Some([reportId |-> ReportIdOf(result),
                                           reportUrl |-> ReportUrlOf(result)])]
    /\ pc' = IF up'.error.some THEN Raised(up) ELSE "up_done"
    /\ UNCHANGED <<upIn, filesVars, ctxVars, runVars>>

NextUpload ==
    \/ UpBuildFields
    \/ UpReadFile
    \/ UpReadFileThrows
    \/ UpPost
    \/ UpPostRejects
    \/ UpResponse

SpecUpload == InitUpload /\ [][NextUpload]_vars

-----------------------------------------------------------------------------
(* Properties of findCoverageFiles *)

FilesReturned == pc = "files_done" /\ ~filesError

\* the per-pattern results, concatenated in pattern order
RECURSIVE Flatten(_)
Flatten(ss) == IF ss = <<>> THEN <<>> ELSE Head(ss) \o Flatten(Tail(ss))

FirstIndex(s, x) == CHOOSE i \in DOMAIN s : s[i] = x /\ \A k \in 1..(i - 1) : s[k] # x

\* C2: the list findCoverageFiles returns holds no path twice, holds exactly
\* the paths some pattern's expansion returned, and orders them by their first
\* occurrence in the concatenation of the per-pattern results (pattern order).
C2_DedupFirstOccurrence ==
    FilesReturned =>
        LET cat == Flatten(globResults) IN
        /\ NoDup(filesResult)
        /\ Range(filesResult) = Range(cat)
        /\ \A i, j \in DOMAIN filesResult :
              i < j => FirstIndex(cat, filesResult[i]) < FirstIndex(cat, filesResult[j])

\* a path found by two patterns is returned once, and the result is in glob
\* order although that is not the sorted order ("z" before "a")
C2_Witness ==
    /\ FilesReturned
    /\ Len(globResults) = 2
    /\ Range(globResults[1]) \cap Range(globResults[2]) # {}
    /\ Len(filesResult) = 2
    /\ filesResult[1] = <<"z">>
    /\ filesResult[2] = <<"a">>

\* The lines of the block, read off its characters: a line starts at the
\* first character and after every newline and runs to the next newline.
LineStarts(block) ==
    {i \in 1..(Len(block) + 1) : i = 1 \/ block[i - 1] = NL}

LineEnd(block, i) ==
    CHOOSE j \in i..(Len(block) + 1) :
        /\ j = Len(block) + 1 \/ block[j] = NL
        /\ \A k \in i..(j - 1) : block[k] # NL

\* the positions of the line starting at i that hold no white space
InkOf(block, i) == {k \in i..(LineEnd(block, i) - 1) : block[k] \notin WhiteSpace}

NonBlankStarts(block) == {i \in LineStarts(block) : InkOf(block, i) # {}}

Smallest(S) == CHOOSE x \in S : \A y \in S : x <= y
Largest(S) == CHOOSE x \in S : \A y \in S : y <= x

\* the text of the line starting at i, without its surrounding white space
TrimmedLine(block, i) ==
    SubSeq(block, Smallest(InkOf(block, i)), Largest(InkOf(block, i)))

\* the start of the k-th non-blank line
KthStart(block, k) ==
    CHOOSE i \in NonBlankStarts(block) :
        Cardinality({j \in NonBlankStarts(block) : j < i}) = k - 1

\* C3: the block is split on newlines, each line trimmed, blank lines dropped;
\* exactly one glob expansion is made per remaining line, in line order, on
\* the trimmed text and with symbolic-link following disabled.
C3_OneGlobPerLine ==
    /\ Len(globCalls) <= Cardinality(NonBlankStarts(patternBlock))
    /\ \A k \in DOMAIN globCalls :
          /\ globCalls[k].pattern = TrimmedLine(patternBlock, KthStart(patternBlock, k))
          /\ globCalls[k].options.followSymbolicLinks = FALSE
    /\ FilesReturned =>
          Len(globCalls) = Cardinality(NonBlankStarts(patternBlock))

\* a block with a blank line and a padded line: two expansions, both trimmed
C3_Witness ==
    /\ FilesReturned
    /\ Cardinality(LineStarts(patternBlock)) > Len(globCalls)
    /\ Len(globCalls) = 2
    /\ \E k \in DOMAIN patternBlock : patternBlock[k] = " "

AllWhiteSpace(block) == \A i \in DOMAIN block : block[i] \in WhiteSpace

NothingMatched ==
    /\ ~filesError
    /\ \A k \in DOMAIN globResults : globResults[k] = <<>>

\* C4: on an empty or whitespace-only block, or when no pattern matches
\* anything, findCoverageFiles returns the empty list and raises no error.
C4_EmptyIsNotAnError ==
    (pc = "files_done" /\ (AllWhiteSpace(patternBlock) \/ NothingMatched)) =>
        (filesResult = <<>> /\ ~filesError)

\* a block of two or more characters, all of them white space
C4_WitnessBlank ==
    /\ pc = "files_done"
    /\ AllWhiteSpace(patternBlock)
    /\ Len(patternBlock) >= 2
    /\ filesResult = <<>>

-----------------------------------------------------------------------------
(* Properties of detectPathContext *)

CtxReturned == pc = "ctx_done"

\* directories by their segments: d is root or lies below it
InsideOrEqual(d, root) ==
    LET ds == Segments(d)
        rs == Segments(root)
    IN  Len(rs) <= Len(ds) /\ SubSeq(ds, 1, Len(rs)) = rs

AncestorsOrSelf(d) ==
    {AbsFromSegs(SubSeq(Segments(d), 1, k)) : k \in 0..Len(Segments(d))}

\* the path of d below root, '' for root itself
BelowRoot(d, root) ==
    JoinSegs(SubSeq(Segments(d), Len(Segments(root)) + 1, Len(Segments(d))))

\* the directory that holds file f, f taken relative to directory base
HoldingDir(f, base) ==
    LET segs == Segments(resolveFrom(base, f))
    IN  AbsFromSegs(SubSeq(segs, 1, Len(segs) - 1))

MarkerIn(d, markerName) == d \o <<SLASH>> \o markerName

WalkKinds == [i \in DOMAIN walks |-> walks[i].kind]

\* C5: with an explicit working directory the returned workingDirectory is
\* that input exactly, no auto-detection walk is made, and the module probe
\* looks only at go.mod in repoRoot joined with the explicit directory.
C5_ExplicitVerbatim ==
    (CtxReturned /\ workingDirectoryInput # <<>>) =>
        /\ ctxResult.some
        /\ ctxResult.val.workingDirectory = Some(workingDirectoryInput)
        /\ walks = <<>>
        /\ fsLog # <<>>
        /\ \A i \in DOMAIN fsLog :
              fsLog[i].path =
                  resolveFrom(repoRoot, MarkerIn(workingDirectoryInput, S_goMod))

\* an explicit directory with a trailing separator, given together with a
\* Go coverage file that a walk could have used
C5_Witness ==
    /\ CtxReturned
    /\ workingDirectoryInput = <<"a", "/">>
    /\ F_deepOut \in Range(coverageFiles)
    /\ ctxResult.val.workingDirectory = Some(<<"a", "/">>)
    /\ ctxResult.val.goModulePath.some

GoFound ==
    /\ goLocals.some
    /\ Truthy(goLocals.val.workingDir) \/ Truthy(goLocals.val.goModulePath)

\* C6: the branches are tried in the order explicit, Go, frontend, fallback
\* and the first success wins: once the Go branch found a working directory
\* or a module identifier it returns them and the frontend walk is never
\* made; the frontend branch runs only when the Go branch found neither.
C6_FirstSuccessWins ==
    /\ WalkKinds \in {<<>>, <<"go">>, <<"frontend">>, <<"go", "frontend">>}
    /\ workingDirectoryInput # <<>> => (walks = <<>> /\ ~goLocals.some)
    /\ GoFound =>
          /\ CtxReturned
          /\ ctxResult = Some(Context(goLocals.val.workingDir,
                                      goLocals.val.goModulePath, repoRoot))
          /\ "frontend" \notin Range(WalkKinds)
    /\ "frontend" \in Range(WalkKinds) => ~GoFound
    /\ pc = "ctx_fallback" =>
          /\ workingDirectoryInput = <<>>
          /\ ~GoFound
          /\ ~ctxResult.some

\* the Go branch found only a module identifier, and returned, although a
\* frontend file with its package.json was there to be found
C6_Witness ==
    /\ CtxReturned
    /\ WalkKinds = <<"go">>
    /\ ~Truthy(goLocals.val.workingDir)
    /\ Truthy(goLocals.val.goModulePath)
    /\ F_lcov \in Range(coverageFiles)
    /\ MarkerIn(D_a, S_packageJson) \in fsFiles

\* the first '.out' file in discovery order
FirstGoFile ==
    coverageFiles[CHOOSE i \in DOMAIN coverageFiles :
                      /\ endsWith(coverageFiles[i], S_out)
                      /\ \A j \in 1..(i - 1) : ~endsWith(coverageFiles[j], S_out)]

\* the directories from the file's own directory up to repoRoot that hold go.mod
GoModAncestors ==
    {d \in AncestorsOrSelf(HoldingDir(FirstGoFile, cwd)) :
        InsideOrEqual(d, repoRoot) /\ MarkerIn(d, S_goMod) \in fsFiles}

NearestGoModDir ==
    CHOOSE d \in GoModAncestors : \A e \in GoModAncestors : Len(e) <= Len(d)

S_exampleModule ==
    <<"e", "x", "a", "m", "p", "l", "e", ".", "c", "o", "m", "/", "f", "o", "o">>

\* C7 as stated: whenever a directory from the first '.out' file's own
\* directory up to repoRoot holds go.mod, the returned workingDirectory is the
\* repo-relative path of the nearest such directory.
C7_AlwaysRelativePath ==
    (CtxReturned /\ workingDirectoryInput = <<>>
        /\ (\E i \in DOMAIN coverageFiles : endsWith(coverageFiles[i], S_out))
        /\ GoModAncestors # {}) =>
        ctxResult.val.workingDirectory = Some(BelowRoot(NearestGoModDir, repoRoot))

\* C7: Go auto-detection uses only the first '.out' file and returns as
\* workingDirectory the repo-relative path of the nearest directory, from the
\* file's own directory upward to repoRoot, that holds go.mod; when that
\* directory is repoRoot itself its relative path is empty and the walk
\* yields no working directory. When that go.mod declares
\* `module example.com/foo` the module identifier is example.com/foo.
C7_NearestGoMod ==
    (CtxReturned /\ workingDirectoryInput = <<>>
        /\ \E i \in DOMAIN coverageFiles : endsWith(coverageFiles[i], S_out)) =>
        /\ Len(walks) >= 1
        /\ walks[1] = Walk("go", FirstGoFile)
        /\ \A i \in DOMAIN walks : walks[i].kind = "go" => i = 1
        /\ GoModAncestors # {} =>
              /\ NearestGoModDir # repoRoot =>
                    /\ goLocals.val.workingDir = Some(BelowRoot(NearestGoModDir, repoRoot))
                    /\ ctxResult.val.workingDirectory =
                           Some(BelowRoot(NearestGoModDir, repoRoot))
              /\ NearestGoModDir = repoRoot => goLocals.val.workingDir = None
              /\ ReadCall(MarkerIn(NearestGoModDir, S_goMod), ReadText(T_exampleModule))
                     \in Range(fsLog) =>
                    goLocals.val.goModulePath = Some(S_exampleModule)

\* one '.out' file two levels below the go.mod that declares example.com/foo
C7_Witness ==
    /\ CtxReturned
    /\ coverageFiles = <<F_deepOut>>
    /\ workingDirectoryInput = <<>>
    /\ MarkerIn(D_ab, S_goMod) \notin fsFiles
    /\ MarkerIn(D_a, S_goMod) \in fsFiles
    /\ ctxResult.val.workingDirectory = Some(<<"a">>)
    /\ ctxResult.val.goModulePath = Some(S_exampleModule)

\* the nearest go.mod above the first '.out' file lies in repoRoot itself
GoModOnlyAtRoot ==
    /\ goLocals.some
    /\ workingDirectoryInput = <<>>
    /\ GoModAncestors # {}
    /\ NearestGoModDir = repoRoot

\* C29: when the nearest go.mod above the first '.out' file lies in repoRoot
\* itself, the Go walk stops there and yields no working directory, the
\* module probe then runs at repoRoot, and when it finds a module the
\* returned context has the module identifier and repoRoot but no
\* workingDirectory, and the frontend branch is not attempted.
C29_GoModAtRepoRoot ==
    GoModOnlyAtRoot =>
        LET rootGoMod == MarkerIn(repoRoot, S_goMod) IN
        /\ goLocals.val.workingDir = None
        /\ \E n \in DOMAIN fsLog :
              /\ \A i \in 1..(n - 1) :
                    /\ fsLog[i].op = "existsSync"
                    /\ ~fsLog[i].found
                    /\ fsLog[i].path # rootGoMod
                    /\ InsideOrEqual(dirname(fsLog[i].path), repoRoot)
              /\ fsLog[n] = ExistsCall(rootGoMod, TRUE)
              /\ Len(fsLog) >= n + 2
              /\ fsLog[n + 1] = ExistsCall(rootGoMod, TRUE)
              /\ fsLog[n + 2].op = "readFileSync"
              /\ fsLog[n + 2].path = rootGoMod
        /\ Truthy(goLocals.val.goModulePath) =>
              /\ CtxReturned
              /\ ctxResult = Some(Context(None, goLocals.val.goModulePath, repoRoot))
              /\ WalkKinds = <<"go">>

\* a '.out' file two levels down with go.mod in repoRoot only, beside a
\* frontend file whose package.json is there to be found
C29_Witness ==
    /\ GoModOnlyAtRoot
    /\ CtxReturned
    /\ coverageFiles = <<F_lcov, F_deepOut>>
    /\ fsFiles = {MarkerIn(D_root, S_goMod), MarkerIn(D_a, S_packageJson)}
    /\ Len(fsLog) = 5
    /\ ctxResult = Some(Context(None, Some(S_exampleModule), D_root))

\* C8: the upward marker walk never probes for, or returns, a marker in a
\* directory that is neither repoRoot nor below it.
C8_WalkStaysInsideRepo ==
    workingDirectoryInput = <<>> =>
        /\ \A i \in DOMAIN fsLog : InsideOrEqual(dirname(fsLog[i].path), repoRoot)
        /\ (ctxResult.some /\ ctxResult.val.workingDirectory.some) =>
              ~startsWith(ctxResult.val.workingDirectory.val, DOTDOT)

ReadThrew == \E i \in DOMAIN fsLog : fsLog[i].read = ReadThrows

\* C9: detectPathContext never raises: an error while reading go.mod is
\* caught and counts as "no module found", resolution goes on to the next
\* branch and a context is returned.
C9_NeverRaises ==
    /\ ~ctxError
    /\ CtxReturned => ctxResult.some
    /\ (ReadThrew /\ goLocals.some) => goLocals.val.goModulePath = None
    /\ (ReadThrew /\ CtxReturned) => ctxResult.val.goModulePath = None

\* reading go.mod in repoRoot threw in the Go branch, and the frontend
\* branch ran after it
C9_Witness ==
    /\ CtxReturned
    /\ ReadThrew
    /\ WalkKinds = <<"go", "frontend">>
    /\ ctxResult.some

\* the classification summariseCoverageFiles makes of the i-th file
ClassifiedInside(i) == isInsideRepo(relativeOf(coverageFiles[i], repoRoot, cwd))

InsideIndexes == {i \in DOMAIN coverageFiles : ClassifiedInside(i)}

\* the file in absolute form: itself, or taken below repoRoot
AbsoluteForm(f) ==
    IF f[1] = SLASH THEN f
    ELSE AbsFromSegs(NormalizeSegs(<<>>, Segments(repoRoot) \o Segments(f), FALSE))

\* the directory of the file below repoRoot, '.' for repoRoot itself
ContainingDir(f) ==
    LET d == BelowRoot(HoldingDir(AbsoluteForm(f), repoRoot), repoRoot)
    IN  IF d = <<>> THEN DOT ELSE d

KthSmallest(S, k) == CHOOSE i \in S : Cardinality({j \in S : j < i}) = k - 1

\* C10: every input path is classified inside or outside, never both: the
\* inside files contribute their containing directories, and nothing else,
\* to insideDirs; each outside file contributes one (original, resolved)
\* pair to outsideRepo and nothing to insideDirs; the pairs are in input order.
C10_InsideOrOutside ==
    pathSummary.some =>
        LET inside == InsideIndexes
            outside == DOMAIN coverageFiles \ inside
            pairs == pathSummary.val.outsideRepo
        IN  /\ Range(pathSummary.val.insideDirs) =
                   {ContainingDir(coverageFiles[i]) : i \in inside}
            /\ Len(pairs) = Cardinality(outside)
            /\ \A k \in DOMAIN pairs :
                  LET f == coverageFiles[KthSmallest(outside, k)]
                  IN  pairs[k] = [original |-> f, resolved |-> AbsoluteForm(f)]

\* an outside file before an inside one: one pair, one directory
C10_Witness ==
    /\ pathSummary.some
    /\ coverageFiles = <<F_siblingOut, F_deepOut>>
    /\ repoRoot = D_root
    /\ pathSummary.val.insideDirs = << <<"a", "/", "b">> >>
    /\ pathSummary.val.outsideRepo =
           <<[original |-> F_siblingOut, resolved |-> F_siblingOut]>>

-----------------------------------------------------------------------------
(* Properties of summariseCoverageFiles *)

Summarised == pc = "sum_done"

\* the file lies below repoRoot, read off the segments of its absolute form
LiesBelowRoot(f) ==
    LET fsegs == Segments(AbsoluteForm(f))
        rsegs == Segments(repoRoot)
    IN  /\ Len(fsegs) > Len(rsegs)
        /\ SubSeq(fsegs, 1, Len(rsegs)) = rsegs

\* the i-th file is reported as outside the repository
ReportedOutside(i) ==
    \E k \in DOMAIN pathSummary.val.outsideRepo :
        pathSummary.val.outsideRepo[k].original = coverageFiles[i]

\* C11: a file is classified inside the repository exactly when its path
\* relative to repoRoot is non-empty, has no leading '..' component and is
\* not absolute: every file below repoRoot, whatever the name of its
\* directory or of the file, is classified inside.
C11_InsideIffBelowRoot ==
    Summarised =>
        \A i \in DOMAIN coverageFiles :
            LiesBelowRoot(coverageFiles[i]) <=> ~ReportedOutside(i)

\* the last component of a path
LastSegment(f) == Segments(f)[Len(Segments(f))]

\* how many files of the input carry the base name n
Occurrences(n) ==
    Cardinality({i \in DOMAIN coverageFiles : LastSegment(coverageFiles[i]) = n})

RepeatedNames ==
    {LastSegment(coverageFiles[i]) : i \in DOMAIN coverageFiles} \cap
    {n \in {LastSegment(f) : f \in SummaryFileNames} : Occurrences(n) > 1}

\* C12: duplicateBasenames holds exactly the base names that occur more than
\* once in the whole input, inside and outside files alike, each once with
\* its total count, in the order of their names; two files of one base name
\* in different directories give one entry with count 2.
C12_DuplicateBasenames ==
    Summarised =>
        LET dups == pathSummary.val.duplicateBasenames IN
        /\ Range(dups) = {[name |-> n, count |-> Occurrences(n)] : n \in RepeatedNames}
        /\ Len(dups) = Cardinality(RepeatedNames)
        /\ \A i, j \in DOMAIN dups :
              i < j => localeCompare(dups[i].name, dups[j].name) < 0

\* two base names, each met twice, one of them once outside the repository;
\* the entries come in name order, not in the order the names were first met
C12_Witness ==
    /\ Summarised
    /\ coverageFiles = <<F_capitalRoot, F_capitalDeep, F_deepOut, F_awayOut>>
    /\ pathSummary.val.duplicateBasenames =
           <<[name |-> <<"c", ".", "o", "u", "t">>, count |-> 2],
             [name |-> <<"D", ".", "o", "u", "t">>, count |-> 2]>>

\* the context detectPathContext computes from its inputs alone, given what
\* reading go.mod does, with no diagnostics involved
QuietContext(read) ==
    LET root == RepoRootOf(envWorkspace, cwd)
        goFiles == goCoverageFilesOf(coverageFiles)
        frontFiles == frontendCoverageFilesOf(coverageFiles)
        goDir == IF goFiles # <<>>
                 THEN autoDetectGoWorkingDirectory(goFiles[1], root, cwd, fsFiles).value
                 ELSE None
        goModule == IF goFiles # <<>>
                    THEN detectGoModulePath(
                             IF Truthy(goDir) THEN join(root, goDir.val) ELSE root,
                             fsFiles, read).value
                    ELSE None
        frontDir == IF frontFiles # <<>>
                    THEN autoDetectFrontendWorkingDirectory(frontFiles[1], root, cwd,
                                                            fsFiles).value
                    ELSE None
    IN  IF workingDirectoryInput # <<>>
        THEN Context(Some(workingDirectoryInput),
                     detectGoModulePath(join(root, workingDirectoryInput),
                                        fsFiles, read).value,
                     root)
        ELSE IF Truthy(goDir) \/ Truthy(goModule) THEN Context(goDir, goModule, root)
        ELSE IF Truthy(frontDir) THEN Context(frontDir, None, root)
        ELSE Context(None, None, root)

CtxRunning ==
    pc \in {"ctx_explicit", "ctx_go", "ctx_frontend", "ctx_fallback", "ctx_done"}

-----------------------------------------------------------------------------
(* Properties of uploadCoverage *)

\* the request has been sent and its response is awaited
Posted == pc = "up_response" /\ up.post.some

RequiredKeys ==
    <<K_repository, K_branch, K_commit_sha, K_commit_message, K_author_name,
      K_author_email>>
PathContextKeys == {K_working_directory, K_go_module_path, K_repo_root}
PullRequestKeys == {K_pr_number, K_pr_base_branch, K_pr_base_sha}

RequiredValues ==
    <<upIn.options.repository, upIn.options.branch, upIn.options.commitSha,
      upIn.options.commitMessage, upIn.options.authorName, upIn.options.authorEmail>>

\* 1 for a required field, 2 for a path-context field, 3 for a pull-request field
GroupOf(key) ==
    IF key \in PathContextKeys THEN 2 ELSE IF key \in PullRequestKeys THEN 3 ELSE 1

\* the positions of the parts: the fields, three parts per file, the closing
FilePartAt(k) == Len(up.fields) + 3 * (k - 1) + 1

\* C14: the body has a fixed structure: the six required fields in their
\* order, each once and with its value verbatim, then the path-context
\* fields, then the pull-request fields, then the file parts, and the closing
\* boundary marker last.
C14_BodyStructure ==
    Posted =>
        /\ Len(up.fields) >= 6
        /\ \A k \in 1..6 :
              /\ up.fields[k] = Field(RequiredKeys[k], RequiredValues[k])
              /\ up.parts[k] =
                     BufferFrom(S_dashes \o up.boundary \o CRLF
                                \o S_dispositionName \o RequiredKeys[k] \o S_quote
                                \o CRLF \o CRLF \o RequiredValues[k] \o CRLF)
        /\ \A i, j \in DOMAIN up.fields :
              /\ i # j => up.fields[i].key # up.fields[j].key
              /\ i < j => GroupOf(up.fields[i].key) <= GroupOf(up.fields[j].key)
        /\ \A i \in 7..Len(up.fields) :
              up.parts[i] = BufferFrom(FieldPartText(up.boundary, up.fields[i].key,
                                                     up.fields[i].value))
        /\ Len(up.parts) = Len(up.fields) + 3 * Len(upIn.options.coverageFiles) + 1
        /\ up.parts[Len(up.parts)] =
               BufferFrom(S_dashes \o up.boundary \o S_dashes \o CRLF)
        /\ up.post.val.data = toBinaryString(BufferConcat(up.parts))

\* every optional field is present, two files follow, and the commit message
\* holds a quote and a line break
C14_Witness ==
    /\ Posted
    /\ Len(up.fields) = 12
    /\ up.fields[7].key = K_working_directory
    /\ up.fields[10].key = K_pr_number
    /\ Len(upIn.options.coverageFiles) = 2
    /\ upIn.options.commitMessage = <<"\"", "\r", "\n", "uE9">>

FieldsBuilt == pc \in {"up_files", "up_response", "up_done"}

Emitted(key) == \E i \in DOMAIN up.fields : up.fields[i].key = key

\* a string option has a value to send
HasText(value) == value.some /\ value.val # <<>>

\* C15: each optional field is emitted exactly when its value is present; an
\* absent value gives no field, and no optional field is ever emitted with an
\* empty value.
C15_OptionalFieldsOnlyWhenPresent ==
    FieldsBuilt =>
        LET o == upIn.options
            ctx == o.pathContext
        IN  /\ Emitted(K_working_directory) <=>
                   (ctx.some /\ HasText(ctx.val.workingDirectory))
            /\ Emitted(K_go_module_path) <=>
                   (ctx.some /\ HasText(ctx.val.goModulePath))
            /\ Emitted(K_repo_root) <=> (ctx.some /\ ctx.val.repoRoot # <<>>)
            /\ Emitted(K_pr_number) <=>
                   (o.prNumber.type = "number" /\ o.prNumber.kind # "nan")
            /\ Emitted(K_pr_base_branch) <=> HasText(o.prBaseBranch)
            /\ Emitted(K_pr_base_sha) <=> HasText(o.prBaseSha)
            /\ \A i \in DOMAIN up.fields :
                  up.fields[i].key \in PathContextKeys \cup PullRequestKeys =>
                      up.fields[i].value # <<>>

\* a path context and pull-request strings that are all empty: of the
\* optional fields only pr_number is emitted
C15_Witness ==
    /\ FieldsBuilt
    /\ upIn.options.pathContext = Some(Context(Some(<<>>), Some(<<>>), <<>>))
    /\ upIn.options.prBaseBranch = Some(<<>>)
    /\ Len(up.fields) = 7
    /\ up.fields[7] = Field(K_pr_number, <<"0">>)

\* a well-formed number: of number type, not NaN, finite
WellFormedNumber(n) == n.type = "number" /\ n.kind = "finite"

\* C16: the pr_number field is emitted only for a well-formed pull-request
\* number; a value that is not of number type, is NaN or is not finite
\* counts as absent.
C16_PrNumberWellFormed ==
    FieldsBuilt => (Emitted(K_pr_number) => WellFormedNumber(upIn.options.prNumber))

\* C17: one 'files[]' part per entry of coverageFiles, in input order, each
\* with the file's base name as filename and the file's raw content; an empty
\* list gives no file part and reads no file, and the request is still sent.
C17_OneFilePartPerFile ==
    /\ pc \in {"up_response", "up_done"} =>
          (up.post.some <=> Len(up.contents) = Len(upIn.options.coverageFiles))
    /\ (FieldsBuilt /\ upIn.options.coverageFiles = <<>>) =>
          (up.reads = <<>> /\ up.contents = <<>> /\ (pc # "up_files" => up.post.some))
    /\ Posted =>
          /\ up.reads = upIn.options.coverageFiles
          /\ \A k \in DOMAIN upIn.options.coverageFiles :
                /\ up.parts[FilePartAt(k)] =
                       BufferFrom(S_dashes \o up.boundary \o CRLF
                                  \o S_dispositionName \o K_files \o S_filenameAttr
                                  \o LastSegment(upIn.options.coverageFiles[k])
                                  \o S_quote \o CRLF \o S_octetStream \o CRLF \o CRLF)
                /\ up.parts[FilePartAt(k) + 1] = up.contents[k]
                /\ up.parts[FilePartAt(k) + 2] = CRLF

\* two files in different directories with different contents
C17_Witness ==
    /\ Posted
    /\ upIn.options.coverageFiles = <<F_clover, F_deepOut>>
    /\ up.contents = <<<<"xE9", "x">>, <<"x">>>>
    /\ up.parts[Len(up.fields) + 2] = <<"xE9", "x">>
    /\ up.parts[Len(up.fields) + 5] = <<"x">>

Answered == pc = "up_done" /\ up.response.some

\* C19: a response whose status is neither 200 nor 201 raises an error whose
\* message holds the status code and the raw body, gives no result and is
\* never parsed; a 200 or 201 response does not raise this error.
C19_FailureStatusRaises ==
    Answered =>
        LET response == up.response.val IN
        IF response.statusCode \notin {200, 201}
        THEN /\ up.error.some
             /\ up.error.val.kind = "status"
             /\ includes(up.error.val.message, toString(response.statusCode))
             /\ includes(up.error.val.message, response.body.text)
             /\ ~up.result.some
             /\ ~up.parsed
        ELSE ~(up.error.some /\ up.error.val.kind = "status")

\* status 404 with the body `not found`
C19_Witness ==
    /\ Answered
    /\ up.response.val.statusCode = 404
    /\ up.response.val.body.text = R_notFound
    /\ includes(up.error.val.message, <<"4", "0", "4">>)
    /\ includes(up.error.val.message, R_notFound)

Returned ==
    pc = "up_done" /\ up.result.some /\ IsRecord(up.response.val.body.parsed.val)

\* a field of the parsed object has a usable value
HasValue(v) == (v.t = "number" /\ v.n # 0) \/ (v.t = "string" /\ v.s # <<>>)

\* reportId and reportUrl as the fallback chain gives them
ReportFieldsFollowChain ==
    LET r == up.response.val.body.parsed.val
        reportId == up.result.val.reportId
    IN  /\ up.response.val.statusCode \in {200, 201}
        /\ HasValue(r.report_id) => reportId = r.report_id
        /\ (~HasValue(r.report_id) /\ HasValue(r.id)) => reportId = r.id
        /\ (~HasValue(r.report_id) /\ ~HasValue(r.id)) => reportId = J_string(S_unknown)
        /\ HasValue(reportId)
        /\ up.result.val.reportUrl =
               IF HasValue(r.report_url) THEN r.report_url ELSE J_string(<<>>)

\* C20: on a 200/201 response with a JSON object body, reportId is report_id
\* when that has a value, else id when that has a value, else 'unknown', and
\* so is always a non-empty string; reportUrl is report_url when that has a
\* value, else the empty string.
C20_AlwaysNonEmptyString ==
    Returned =>
        /\ ReportFieldsFollowChain
        /\ up.result.val.reportId.t = "string"
        /\ up.result.val.reportId.s # <<>>

SuccessStatus == Answered /\ up.response.val.statusCode \in {200, 201}

\* the body is the text of a JSON object
ParsesAsRecord(body) == body.parsed.some /\ IsRecord(body.parsed.val)

\* C21: on a 200/201 response whose body is not parseable as a structured
\* record the upload ends in an error; no result with fallback values is
\* returned.
C21_UnparseableBodyIsError ==
    (SuccessStatus /\ ~ParsesAsRecord(up.response.val.body)) =>
        (up.error.some /\ ~up.result.some)

\* the request is in flight
Pending == pc = "up_response"

\* C22: one invocation issues at most one request and never retries: from
\* pending it moves in one step to one terminal outcome, a result or an
\* error, without a second request; a transport error, a non-success status
\* and a parse failure each end in the error, and nothing follows the
\* terminal outcome.
C22_SingleRequestNoRetry ==
    [][/\ up'.requests <= 1
       /\ pc # "up_done"
       /\ Pending =>
             /\ pc' = "up_done"
             /\ up'.requests = up.requests
             /\ up'.result.some # up'.error.some
             /\ ~up'.response.some => up'.error.some
             /\ (up'.response.some /\ up'.response.val.statusCode \notin {200, 201})
                    => up'.error.some
             /\ (up'.response.some /\ ~up'.response.val.body.parsed.some)
                    => up'.error.some]_vars

\* the request was rejected by the transport: one request, an error, no result
C22_Witness ==
    /\ pc = "up_done"
    /\ up.requests = 1
    /\ ~up.response.some
    /\ up.error = Some(UploadError("network", <<>>))
    /\ ~up.result.some

ReadFailed == up.error.some /\ up.error.val.kind = "read"

\* C28: every coverage file is read before the request is issued; when
\* reading a file fails, that error is the outcome as it was thrown and no
\* request is sent at all.
C28_ReadsBeforeRequest ==
    /\ up.post.some =>
          /\ up.reads = upIn.options.coverageFiles
          /\ Len(up.contents) = Len(upIn.options.coverageFiles)
          /\ ~ReadFailed
    /\ ReadFailed =>
          /\ pc = "up_done"
          /\ up.requests = 0
          /\ ~up.post.some
          /\ ~up.result.some
          /\ up.error.val = UploadError("read", up.reads[Len(up.reads)])
          /\ Len(up.contents) = Len(up.reads) - 1

\* the first file was read, reading the second one failed
C28_Witness ==
    /\ ReadFailed
    /\ upIn.options.coverageFiles = <<F_lcov, F_clover>>
    /\ up.reads = <<F_lcov, F_clover>>
    /\ Len(up.contents) = 1
    /\ up.requests = 0

-----------------------------------------------------------------------------
(* Properties of run *)

RunFinished == pc = "run_done"

\* C1: when fail-on-error is 'false' and a step of run() raises an error,
\* the workflow step is not marked failed (core.setFailed is not called).
C1_NoFailureUnlessAsked ==
    (RunFinished /\ runIn.failOnError = S_false /\ run.error.some) =>
        run.setFailed = <<>>

\* the value an output has when run() is over: that of its last setOutput
LastOutput(name) ==
    LET set == {i \in DOMAIN run.outputs : run.outputs[i].name = name}
    IN  IF set = {} THEN None
        ELSE Some(run.outputs[CHOOSE i \in set : \A j \in set : j <= i].value)

StatusSuccess == <<"s", "u", "c", "c", "e", "s", "s">>
StatusFailed == <<"f", "a", "i", "l", "e", "d">>
StatusSkipped == <<"s", "k", "i", "p", "p", "e", "d">>

\* discovery returned, and returned no file
NothingDiscovered ==
    RunFinished /\ run.coverageFiles.some /\ run.coverageFiles.val = <<>>

\* C23: when discovery returns no files the fail-on-error flag alone decides:
\* 'true' ends the run as a failure, anything else ends it with status
\* 'skipped' and files-uploaded '0'; uploadCoverage is never called.
C23_NoFilesPolicy ==
    NothingDiscovered =>
        /\ run.uploadCalls = <<>>
        /\ "uploadCoverage" \notin Range(run.calls)
        /\ IF runIn.failOnError = S_true
           THEN /\ run.setFailed # <<>>
                /\ LastOutput("status") = Some(StatusFailed)
           ELSE /\ run.setFailed = <<>>
                /\ ~run.error.some
                /\ LastOutput("status") = Some(StatusSkipped)
                /\ LastOutput("files-uploaded") = Some(<<"0">>)

\* nothing was found and fail-on-error was left unset
C23_Witness ==
    /\ NothingDiscovered
    /\ runIn.failOnError = <<>>
    /\ run.outputs = <<Output("status", StatusSkipped), Output("files-uploaded", <<"0">>)>>

\* C24: when run() is over the status output is one of 'success', 'failed',
\* 'skipped'; it is 'success' only if uploadCoverage returned a result, and
\* files-uploaded is the number of discovered files for 'success' and '0'
\* otherwise.
C24_StatusOutput ==
    RunFinished =>
        /\ LastOutput("status").some
        /\ LastOutput("status").val \in {StatusSuccess, StatusFailed, StatusSkipped}
        /\ LastOutput("status").val = StatusSuccess =>
              (run.result.some /\ run.uploadCalls # <<>> /\ ~run.error.some)
        /\ LastOutput("files-uploaded") =
              IF LastOutput("status").val = StatusSuccess
              THEN Some(toString(Len(run.coverageFiles.val)))
              ELSE Some(<<"0">>)

\* two files were discovered and the upload failed
C24_Witness ==
    /\ RunFinished
    /\ run.coverageFiles.some
    /\ Len(run.coverageFiles.val) = 2
    /\ run.uploadCalls # <<>>
    /\ run.error.some
    /\ LastOutput("status") = Some(StatusFailed)
    /\ LastOutput("files-uploaded") = Some(<<"0">>)

CommitDetected == "detectCommitInfo" \in Range(run.calls)

GitWarning == "Unable to detect commit from GitHub context, using git HEAD"

\* out is raw without its leading and trailing white space
TrimmedOf(raw, out) ==
    \E i \in 1..(Len(raw) + 1), j \in 0..Len(raw) :
        /\ out = SubSeq(raw, i, j)
        /\ \A k \in DOMAIN raw : (k < i \/ k > j) => raw[k] \in WhiteSpace
        /\ out # <<>> => (out[1] \notin WhiteSpace /\ out[Len(out)] \notin WhiteSpace)

\* C25: detectCommitInfo takes a 'pull_request' event with its payload first
\* (head SHA, title, login, '<login>@users.noreply.github.com'), else a 'push'
\* event with head_commit (id, message, author name and email); in every
\* other case it warns and returns the trimmed output of the four git
\* commands.
C25_CommitSourcePriority ==
    CommitDetected =>
        LET pr == runIn.pull_request
            commit == runIn.head_commit
        IN  IF runIn.eventName = E_pull_request /\ pr.some
            THEN /\ run.commitInfo =
                       Some(CommitInfo(pr.val.head.sha, pr.val.title, pr.val.user.login,
                                       pr.val.user.login \o S_noreply))
                 /\ GitWarning \notin Range(run.warnings)
            ELSE IF runIn.eventName = E_push /\ commit.some
            THEN /\ run.commitInfo =
                       Some(CommitInfo(commit.val.id, commit.val.message,
                                       commit.val.author.name, commit.val.author.email))
                 /\ GitWarning \notin Range(run.warnings)
            ELSE /\ GitWarning \in Range(run.warnings)
                 /\ runIn.git.ok =>
                       /\ run.commitInfo.some
                       /\ TrimmedOf(runIn.git.sha, run.commitInfo.val.sha)
                       /\ TrimmedOf(runIn.git.message, run.commitInfo.val.message)
                       /\ TrimmedOf(runIn.git.authorName, run.commitInfo.val.authorName)
                       /\ TrimmedOf(runIn.git.authorEmail, run.commitInfo.val.authorEmail)

\* a pull_request_target event with both payloads present: the git commands
\* are the source, their output without the line ends
C25_Witness ==
    /\ CommitDetected
    /\ runIn.eventName = E_pull_request_target
    /\ runIn.pull_request.some
    /\ runIn.head_commit.some
    /\ GitWarning \in Range(run.warnings)
    /\ run.commitInfo = Some(CommitInfo(<<"g">>, <<"G">>, <<"n">>, <<"e">>))

\* the trigger is an event of the pull_request family carrying the payload
PullRequestTrigger ==
    /\ Len(runIn.eventName) >= Len(E_pull_request)
    /\ SubSeq(runIn.eventName, 1, Len(E_pull_request)) = E_pull_request
    /\ runIn.pull_request.some

\* the payload has been looked at
PayloadSeen == pc \notin {"run_inputs", "run_pr"}

\* where the pull-request fields of the upload come from
PullRequestSource ==
    /\ (PayloadSeen /\ PullRequestTrigger) =>
          /\ run.pullsListCalls = <<>>
          /\ \A i \in DOMAIN run.uploadCalls :
                /\ run.uploadCalls[i].prNumber = Some(runIn.pull_request.val.number)
                /\ run.uploadCalls[i].prBaseBranch = Some(runIn.pull_request.val.base.ref)
                /\ run.uploadCalls[i].prBaseSha = Some(runIn.pull_request.val.base.sha)
    /\ run.pullsListCalls # <<>> =>
          (~PullRequestTrigger /\ runIn.githubToken # <<>> /\ Len(run.pullsListCalls) = 1)

\* C26: on a pull-request event carrying the payload, uploadCoverage gets
\* prNumber, prBaseBranch and prBaseSha from the payload and the API lookup
\* is not performed; the lookup is attempted only when the payload gave no
\* number and a token is available, and a lookup error never fails the run.
C26_PullRequestFromPayload ==
    [][/\ PullRequestSource'
       /\ pc = "run_lookup" =>
             (pc' = "run_commit" /\ ~run'.error.some /\ run'.setFailed = <<>>)]_vars

\* a pull_request_target event: the upload carries the payload's number and
\* base, and no lookup was made although a token was there
C26_Witness ==
    /\ RunFinished
    /\ runIn.eventName = E_pull_request_target
    /\ runIn.pull_request.some
    /\ runIn.githubToken # <<>>
    /\ run.pullsListCalls = <<>>
    /\ Len(run.uploadCalls) = 1
    /\ run.uploadCalls[1].prNumber = Some(41)
    /\ run.uploadCalls[1].prBaseBranch = Some(<<"m">>)
    /\ run.uploadCalls[1].prBaseSha = Some(<<"b">>)

\* the position of a call in the order of the calls run() made
CallIndexes(name) == {i \in DOMAIN run.calls : run.calls[i] = name}

\* C27: an invocation that reaches the upload runs discovery, then path
\* resolution, then the one network call: the path context is resolved
\* after discovery and before the request, and the request carries it.
C27_DiscoveryResolutionUpload ==
    \A k \in CallIndexes("uploadCoverage") :
        /\ \E i \in CallIndexes("findCoverageFiles"), j \in CallIndexes("detectPathContext") :
              i < j /\ j < k
        /\ run.uploadCalls[1].pathContext.some

\* C30: whenever run() takes the pull-request fields from the payload (any
\* event whose name starts with 'pull_request'), the commit SHA it uploads
\* is that pull request's head SHA.
C30_SameEventsForCommitAndPullRequest ==
    (PayloadSeen /\ PullRequestTrigger) =>
        \A i \in DOMAIN run.uploadCalls :
            run.uploadCalls[i].commitSha = runIn.pull_request.val.head.sha

====
